---- MODULE Spec2Model ----
(***************************************************************************)
(* Kconfiglib: the symbol/choice value engine, its caches, the dependency  *)
(* graph used for invalidation, and the .config reader/writer.             *)
(*                                                                         *)
(* A Python string is a sequence of one-character strings ("10" is         *)
(* <<"1","0">>), so that formatting and parsing are computed, not assumed. *)
(* A property that the code computes with side effects on the caches       *)
(* (Symbol.value, Symbol.visibility, ...) is an operator that takes the    *)
(* state st and returns [v |-> result, st |-> state after the call].       *)
(***************************************************************************)
EXTENDS Integers, Sequences, FiniteSets, TLC

VARIABLES
    cfg,                  \* which Kconfig tree the Config object was built from
    user_value,           \* Symbol.user_value
    cached_val,           \* Symbol._cached_val
    cached_vis,           \* Symbol._cached_vis
    cached_assignable,    \* Symbol._cached_assignable
    write_to_conf,        \* Symbol._write_to_conf
    ch_user_value,        \* Choice.user_value
    ch_user_selection,    \* Choice.user_selection
    ch_cached_selection,  \* Choice._cached_selection
    ch_cached_vis,        \* Choice._cached_vis
    ch_cached_assignable, \* Choice._cached_assignable
    last_op,              \* history: the last call made on the Config object
    _cached_deps,         \* Symbol._cached_deps, for the symbols that have one
    stack,                \* the frames of the running Symbol._get_dependent calls
    next_line,            \* the line of a Kconfig file given to Config._tokenize
    kconfig_file          \* the statements of the file given to Config.__init__

vars == <<cfg, user_value, cached_val, cached_vis, cached_assignable,
          write_to_conf, ch_user_value, ch_user_selection,
          ch_cached_selection, ch_cached_vis, ch_cached_assignable, last_op,
          _cached_deps, stack, next_line, kconfig_file>>

----------------------------------------------------------------------------
(* Values *)

N == <<"n">>
M == <<"m">>
Y == <<"y">>

\* Python None in a slot that otherwise holds a string or an expression
None == <<"None">>

\* Python None in a slot that otherwise holds a Symbol
NoSym == "None"

_NO_CACHED_SELECTION == "_NO_CACHED_SELECTION"

UNKNOWN == "unknown"
BOOL == "bool"
TRISTATE == "tristate"
\* STRING of the source (the name is taken in TLA+)
STRING_TYPE == "string"
HEX == "hex"
INT == "int"

_TRI_TO_INT == (N :> 0) @@ (M :> 1) @@ (Y :> 2)

_DEFAULT_VALUE == (BOOL :> N) @@ (TRISTATE :> N) @@ (HEX :> <<>>) @@ (INT :> <<>>) @@ (STRING_TYPE :> <<>>)

\* Expressions: None, a Symbol, a str, or a tuple (operator, operands)
Sym(name) == <<"Symbol", name>>
Str(s) == <<"str", s>>
Prompt(cond) == <<"prompt", cond>>

----------------------------------------------------------------------------
(* The Config objects: what Config.__init__ leaves after parsing            *)

\* Symbol.__init__
NewSymbol(chars) ==
    [name |-> chars, _type |-> UNKNOWN, nodes |-> <<>>, defaults |-> <<>>,
     ranges |-> <<>>, rev_dep |-> Str(N), weak_rev_dep |-> Str(N),
     direct_deps |-> Str(N), env_var |-> FALSE, choice |-> NoSym]

\* Choice.__init__
NewChoice ==
    [_type |-> UNKNOWN, syms |-> <<>>, defaults |-> <<>>, nodes |-> <<>>,
     is_optional |-> FALSE]

\* platform.uname()[2] of the machine the Config is built on
UnameRelease == <<"r">>

\* The predefined symbol of Config.__init__
UNAME_RELEASE ==
    [NewSymbol(<<"U","N","A","M","E","_","R","E","L","E","A","S","E">>) EXCEPT
        !._type = STRING_TYPE, !.defaults = << <<Str(UnameRelease), None>> >>,
        !.env_var = TRUE]

\* self.modules = self._lookup_sym("MODULES"), when no Kconfig file defines it
UndefinedMODULES == NewSymbol(<<"M","O","D","U","L","E","S">>)

(*  config EXPERT                                                           *)
(*      bool "expert"                                                       *)
(*      default y                                                           *)
(*  config MODULES                                                          *)
(*      bool "modules"                                                      *)
(*      default y                                                           *)
(*      depends on EXPERT                                                   *)
(*  config T                                                                *)
(*      tristate "t"                                                        *)
KconfigModules ==
    [syms |->
        ("UNAME_RELEASE" :> UNAME_RELEASE)
     @@ ("MODULES" :> [NewSymbol(<<"M","O","D","U","L","E","S">>) EXCEPT
            !._type = BOOL,
            !.nodes = << [prompt |-> Prompt(Sym("EXPERT")), dep |-> Sym("EXPERT")] >>,
            !.defaults = << <<Str(Y), Sym("EXPERT")>> >>,
            !.direct_deps = Sym("EXPERT")])
     @@ ("EXPERT" :> [NewSymbol(<<"E","X","P","E","R","T">>) EXCEPT
            !._type = BOOL,
            !.nodes = << [prompt |-> Prompt(None), dep |-> None] >>,
            !.defaults = << <<Str(Y), None>> >>,
            !.direct_deps = Str(Y)])
     @@ ("T" :> [NewSymbol(<<"T">>) EXCEPT
            !._type = TRISTATE,
            !.nodes = << [prompt |-> Prompt(None), dep |-> None] >>,
            !.direct_deps = Str(Y)]),
     defined_syms |-> <<"EXPERT", "MODULES", "T">>,
     choices |-> <<>>,
     _choices |-> <<>>,
     menu |-> << Sym("EXPERT"), Sym("MODULES"), Sym("T") >>]

(*  config A                                                                *)
(*      tristate "a"                                                        *)
(*      imply S                                                             *)
(*  config B                                                                *)
(*      tristate "b"                                                        *)
(*      select S                                                            *)
(*  config D                                                                *)
(*      tristate "d"                                                        *)
(*  config S                                                                *)
(*      tristate "s"                                                        *)
(*      depends on D                                                        *)
KconfigSelect ==
    [syms |->
        ("UNAME_RELEASE" :> UNAME_RELEASE)
     @@ ("MODULES" :> UndefinedMODULES)
     @@ ("A" :> [NewSymbol(<<"A">>) EXCEPT
            !._type = TRISTATE,
            !.nodes = << [prompt |-> Prompt(None), dep |-> None] >>,
            !.direct_deps = Str(Y)])
     @@ ("B" :> [NewSymbol(<<"B">>) EXCEPT
            !._type = TRISTATE,
            !.nodes = << [prompt |-> Prompt(None), dep |-> None] >>,
            !.direct_deps = Str(Y)])
     @@ ("D" :> [NewSymbol(<<"D">>) EXCEPT
            !._type = TRISTATE,
            !.nodes = << [prompt |-> Prompt(None), dep |-> None] >>,
            !.direct_deps = Str(Y)])
     @@ ("S" :> [NewSymbol(<<"S">>) EXCEPT
            !._type = TRISTATE,
            !.nodes = << [prompt |-> Prompt(Sym("D")), dep |-> Sym("D")] >>,
            !.rev_dep = Sym("B"),
            !.weak_rev_dep = Sym("A"),
            !.direct_deps = Sym("D")]),
     defined_syms |-> <<"A", "B", "D", "S">>,
     choices |-> <<>>,
     _choices |-> <<>>,
     menu |-> << Sym("A"), Sym("B"), Sym("D"), Sym("S") >>]

(*  config A                                                                *)
(*      tristate "a"                                                        *)
(*      imply X                                                             *)
(*      select Y                                                            *)
(*  choice                                                                  *)
(*      tristate "ch"                                                       *)
(*  config X                                                                *)
(*      tristate "x" if A                                                   *)
(*  config Y                                                                *)
(*      tristate "y" if A                                                   *)
(*  endchoice                                                               *)
KconfigChoice ==
    [syms |->
        ("UNAME_RELEASE" :> UNAME_RELEASE)
     @@ ("MODULES" :> UndefinedMODULES)
     @@ ("A" :> [NewSymbol(<<"A">>) EXCEPT
            !._type = TRISTATE,
            !.nodes = << [prompt |-> Prompt(None), dep |-> None] >>,
            !.direct_deps = Str(Y)])
     @@ ("X" :> [NewSymbol(<<"X">>) EXCEPT
            !._type = TRISTATE,
            !.nodes = << [prompt |-> Prompt(Sym("A")), dep |-> None] >>,
            !.weak_rev_dep = Sym("A"),
            !.direct_deps = Str(Y),
            !.choice = "choice1"])
     @@ ("Y" :> [NewSymbol(<<"Y">>) EXCEPT
            !._type = TRISTATE,
            !.nodes = << [prompt |-> Prompt(Sym("A")), dep |-> None] >>,
            !.rev_dep = Sym("A"),
            !.direct_deps = Str(Y),
            !.choice = "choice1"]),
     defined_syms |-> <<"A", "X", "Y">>,
     choices |->
        ("choice1" :> [NewChoice EXCEPT
            !._type = TRISTATE,
            !.syms = <<"X", "Y">>,
            !.nodes = << [prompt |-> Prompt(None), dep |-> None] >>]),
     _choices |-> <<"choice1">>,
     menu |-> << Sym("A"), <<"Choice", "choice1">>, Sym("X"), Sym("Y") >>]

(*  config F                                                                *)
(*      bool "f"                                                            *)
(*      default y                                                           *)
(*  comment "values"                                                        *)
(*      depends on F                                                        *)
(*  config N                                                                *)
(*      int "n"                                                             *)
(*      range 10 20                                                         *)
(*      default 5                                                           *)
(*  config I                                                                *)
(*      hex "i"                                                             *)
(*  config STR                                                              *)
(*      string "str" if F                                                   *)
(*      default "a"                                                         *)
KconfigFiles ==
    [syms |->
        ("UNAME_RELEASE" :> UNAME_RELEASE)
     @@ ("MODULES" :> UndefinedMODULES)
     @@ ("10" :> NewSymbol(<<"1", "0">>))
     @@ ("20" :> NewSymbol(<<"2", "0">>))
     @@ ("5" :> NewSymbol(<<"5">>))
     @@ ("F" :> [NewSymbol(<<"F">>) EXCEPT
            !._type = BOOL,
            !.nodes = << [prompt |-> Prompt(None), dep |-> None] >>,
            !.defaults = << <<Str(Y), None>> >>,
            !.direct_deps = Str(Y)])
     @@ ("N" :> [NewSymbol(<<"N">>) EXCEPT
            !._type = INT,
            !.nodes = << [prompt |-> Prompt(None), dep |-> None] >>,
            !.defaults = << <<Sym("5"), None>> >>,
            !.ranges = << <<Sym("10"), Sym("20"), None>> >>,
            !.direct_deps = Str(Y)])
     @@ ("I" :> [NewSymbol(<<"I">>) EXCEPT
            !._type = HEX,
            !.nodes = << [prompt |-> Prompt(None), dep |-> None] >>,
            !.direct_deps = Str(Y)])
     @@ ("STR" :> [NewSymbol(<<"S", "T", "R">>) EXCEPT
            !._type = STRING_TYPE,
            !.nodes = << [prompt |-> Prompt(Sym("F")), dep |-> None] >>,
            !.defaults = << <<Str(<<"a">>), None>> >>,
            !.direct_deps = Str(Y)]),
     defined_syms |-> <<"F", "N", "I", "STR">>,
     choices |-> <<>>,
     _choices |-> <<>>,
     menu |-> << Sym("F"), <<"COMMENT", <<"v", "a", "l", "u", "e", "s">>, Sym("F")>>,
                 Sym("N"), Sym("I"), Sym("STR") >>]

(*  config F                                                                *)
(*      bool "f"                                                            *)
(*      default y                                                           *)
(*  config N                                                                *)
(*      int "n"                                                             *)
(*      range 10 20                                                         *)
(*      default 5                                                           *)
(*  config H                                                                *)
(*      hex "h" if F                                                        *)
(*      range 0x10 0x20 if F                                                *)
(*  config P                                                                *)
(*      int "p"                                                             *)
(*      range 10 20                                                         *)
(*      default 30 if F                                                     *)
KconfigRanges ==
    [syms |->
        ("UNAME_RELEASE" :> UNAME_RELEASE)
     @@ ("MODULES" :> UndefinedMODULES)
     @@ ("10" :> NewSymbol(<<"1", "0">>))
     @@ ("20" :> NewSymbol(<<"2", "0">>))
     @@ ("5" :> NewSymbol(<<"5">>))
     @@ ("30" :> NewSymbol(<<"3", "0">>))
     @@ ("0x10" :> NewSymbol(<<"0", "x", "1", "0">>))
     @@ ("0x20" :> NewSymbol(<<"0", "x", "2", "0">>))
     @@ ("F" :> [NewSymbol(<<"F">>) EXCEPT
            !._type = BOOL,
            !.nodes = << [prompt |-> Prompt(None), dep |-> None] >>,
            !.defaults = << <<Str(Y), None>> >>,
            !.direct_deps = Str(Y)])
     @@ ("N" :> [NewSymbol(<<"N">>) EXCEPT
            !._type = INT,
            !.nodes = << [prompt |-> Prompt(None), dep |-> None] >>,
            !.defaults = << <<Sym("5"), None>> >>,
            !.ranges = << <<Sym("10"), Sym("20"), None>> >>,
            !.direct_deps = Str(Y)])
     @@ ("H" :> [NewSymbol(<<"H">>) EXCEPT
            !._type = HEX,
            !.nodes = << [prompt |-> Prompt(Sym("F")), dep |-> None] >>,
            !.ranges = << <<Sym("0x10"), Sym("0x20"), Sym("F")>> >>,
            !.direct_deps = Str(Y)])
     @@ ("P" :> [NewSymbol(<<"P">>) EXCEPT
            !._type = INT,
            !.nodes = << [prompt |-> Prompt(None), dep |-> None] >>,
            !.defaults = << <<Sym("30"), Sym("F")>> >>,
            !.ranges = << <<Sym("10"), Sym("20"), None>> >>,
            !.direct_deps = Str(Y)]),
     defined_syms |-> <<"F", "N", "H", "P">>,
     choices |-> <<>>,
     _choices |-> <<>>,
     menu |-> << Sym("F"), Sym("N"), Sym("H"), Sym("P") >>]

(*  config EXPERT                                                           *)
(*      bool "expert"                                                       *)
(*      default y                                                           *)
(*  config MODULES                                                          *)
(*      bool "modules"                                                      *)
(*      default y                                                           *)
(*      depends on EXPERT                                                   *)
(*  config T                                                                *)
(*      tristate "t"                                                        *)
(*  config U                                                                *)
(*      tristate "u" if T                                                   *)
KconfigPrompt ==
    [syms |->
        ("UNAME_RELEASE" :> UNAME_RELEASE)
     @@ ("MODULES" :> [NewSymbol(<<"M","O","D","U","L","E","S">>) EXCEPT
            !._type = BOOL,
            !.nodes = << [prompt |-> Prompt(Sym("EXPERT")), dep |-> Sym("EXPERT")] >>,
            !.defaults = << <<Str(Y), Sym("EXPERT")>> >>,
            !.direct_deps = Sym("EXPERT")])
     @@ ("EXPERT" :> [NewSymbol(<<"E","X","P","E","R","T">>) EXCEPT
            !._type = BOOL,
            !.nodes = << [prompt |-> Prompt(None), dep |-> None] >>,
            !.defaults = << <<Str(Y), None>> >>,
            !.direct_deps = Str(Y)])
     @@ ("T" :> [NewSymbol(<<"T">>) EXCEPT
            !._type = TRISTATE,
            !.nodes = << [prompt |-> Prompt(None), dep |-> None] >>,
            !.direct_deps = Str(Y)])
     @@ ("U" :> [NewSymbol(<<"U">>) EXCEPT
            !._type = TRISTATE,
            !.nodes = << [prompt |-> Prompt(Sym("T")), dep |-> None] >>,
            !.direct_deps = Str(Y)]),
     defined_syms |-> <<"EXPERT", "MODULES", "T", "U">>,
     choices |-> <<>>,
     _choices |-> <<>>,
     menu |-> << Sym("EXPERT"), Sym("MODULES"), Sym("T"), Sym("U") >>]

(*  config A                                                                *)
(*      tristate "a"                                                        *)
(*  config B                                                                *)
(*      tristate "b"                                                        *)
(*  config S                                                                *)
(*      tristate "s" if B                                                   *)
(*      default A if B                                                      *)
(*      default y if A                                                      *)
(*      default m                                                           *)
KconfigDefaults ==
    [syms |->
        ("UNAME_RELEASE" :> UNAME_RELEASE)
     @@ ("MODULES" :> UndefinedMODULES)
     @@ ("A" :> [NewSymbol(<<"A">>) EXCEPT
            !._type = TRISTATE,
            !.nodes = << [prompt |-> Prompt(None), dep |-> None] >>,
            !.direct_deps = Str(Y)])
     @@ ("B" :> [NewSymbol(<<"B">>) EXCEPT
            !._type = TRISTATE,
            !.nodes = << [prompt |-> Prompt(None), dep |-> None] >>,
            !.direct_deps = Str(Y)])
     @@ ("S" :> [NewSymbol(<<"S">>) EXCEPT
            !._type = TRISTATE,
            !.nodes = << [prompt |-> Prompt(Sym("B")), dep |-> None] >>,
            !.defaults = << <<Sym("A"), Sym("B")>>, <<Str(Y), Sym("A")>>,
                            <<Str(M), None>> >>,
            !.direct_deps = Str(Y)]),
     defined_syms |-> <<"A", "B", "S">>,
     choices |-> <<>>,
     _choices |-> <<>>,
     menu |-> << Sym("A"), Sym("B"), Sym("S") >>]

(*  mainmenu "$STR"                                                         *)
(*  config F                                                                *)
(*      bool "f"                                                            *)
(*      default y                                                           *)
(*  config STR                                                              *)
(*      string "str" if F                                                   *)
KconfigString ==
    [syms |->
        ("UNAME_RELEASE" :> UNAME_RELEASE)
     @@ ("MODULES" :> UndefinedMODULES)
     @@ ("F" :> [NewSymbol(<<"F">>) EXCEPT
            !._type = BOOL,
            !.nodes = << [prompt |-> Prompt(None), dep |-> None] >>,
            !.defaults = << <<Str(Y), None>> >>,
            !.direct_deps = Str(Y)])
     @@ ("STR" :> [NewSymbol(<<"S", "T", "R">>) EXCEPT
            !._type = STRING_TYPE,
            !.nodes = << [prompt |-> Prompt(Sym("F")), dep |-> None] >>,
            !.direct_deps = Str(Y)]),
     defined_syms |-> <<"F", "STR">>,
     choices |-> <<>>,
     _choices |-> <<>>,
     menu |-> << Sym("F"), Sym("STR") >>]

(*  config EXPERT                                                           *)
(*      bool "expert"                                                       *)
(*      default y                                                           *)
(*  config MODULES                                                          *)
(*      bool "modules"                                                      *)
(*      default y                                                           *)
(*      depends on EXPERT                                                   *)
(*  config D                                                                *)
(*      tristate "d"                                                        *)
(*  choice                                                                  *)
(*      tristate "ch" if D                                                  *)
(*  config X                                                                *)
(*      tristate "x"                                                        *)
(*  config Y                                                                *)
(*      tristate "y"                                                        *)
(*  endchoice                                                               *)
KconfigChoiceDep ==
    [syms |->
        ("UNAME_RELEASE" :> UNAME_RELEASE)
     @@ ("MODULES" :> [NewSymbol(<<"M","O","D","U","L","E","S">>) EXCEPT
            !._type = BOOL,
            !.nodes = << [prompt |-> Prompt(Sym("EXPERT")), dep |-> Sym("EXPERT")] >>,
            !.defaults = << <<Str(Y), Sym("EXPERT")>> >>,
            !.direct_deps = Sym("EXPERT")])
     @@ ("EXPERT" :> [NewSymbol(<<"E","X","P","E","R","T">>) EXCEPT
            !._type = BOOL,
            !.nodes = << [prompt |-> Prompt(None), dep |-> None] >>,
            !.defaults = << <<Str(Y), None>> >>,
            !.direct_deps = Str(Y)])
     @@ ("D" :> [NewSymbol(<<"D">>) EXCEPT
            !._type = TRISTATE,
            !.nodes = << [prompt |-> Prompt(None), dep |-> None] >>,
            !.direct_deps = Str(Y)])
     @@ ("X" :> [NewSymbol(<<"X">>) EXCEPT
            !._type = TRISTATE,
            !.nodes = << [prompt |-> Prompt(None), dep |-> None] >>,
            !.direct_deps = Str(Y),
            !.choice = "choice1"])
     @@ ("Y" :> [NewSymbol(<<"Y">>) EXCEPT
            !._type = TRISTATE,
            !.nodes = << [prompt |-> Prompt(None), dep |-> None] >>,
            !.direct_deps = Str(Y),
            !.choice = "choice1"]),
     defined_syms |-> <<"EXPERT", "MODULES", "D", "X", "Y">>,
     choices |->
        ("choice1" :> [NewChoice EXCEPT
            !._type = TRISTATE,
            !.syms = <<"X", "Y">>,
            !.nodes = << [prompt |-> Prompt(Sym("D")), dep |-> None] >>]),
     _choices |-> <<"choice1">>,
     menu |-> << Sym("EXPERT"), Sym("MODULES"), Sym("D"),
                 <<"Choice", "choice1">>, Sym("X"), Sym("Y") >>]

(*  config F                                                                *)
(*      bool "f"                                                            *)
(*      default y                                                           *)
(*  config E                                                                *)
(*      int "e" if F                                                        *)
(*  config Q                                                                *)
(*      int "q"                                                             *)
(*      range 10 20                                                         *)
(*      default E                                                           *)
(*      default 15 if F                                                     *)
(*      default 30                                                          *)
(*  config R                                                                *)
(*      hex "r"                                                             *)
(*      range 0x10 0x20 if F                                                *)
(*      default E                                                           *)
(*      default 0x30                                                        *)
KconfigNumDefaults ==
    [syms |->
        ("UNAME_RELEASE" :> UNAME_RELEASE)
     @@ ("MODULES" :> UndefinedMODULES)
     @@ ("10" :> NewSymbol(<<"1", "0">>))
     @@ ("20" :> NewSymbol(<<"2", "0">>))
     @@ ("15" :> NewSymbol(<<"1", "5">>))
     @@ ("30" :> NewSymbol(<<"3", "0">>))
     @@ ("0x10" :> NewSymbol(<<"0", "x", "1", "0">>))
     @@ ("0x20" :> NewSymbol(<<"0", "x", "2", "0">>))
     @@ ("0x30" :> NewSymbol(<<"0", "x", "3", "0">>))
     @@ ("F" :> [NewSymbol(<<"F">>) EXCEPT
            !._type = BOOL,
            !.nodes = << [prompt |-> Prompt(None), dep |-> None] >>,
            !.defaults = << <<Str(Y), None>> >>,
            !.direct_deps = Str(Y)])
     @@ ("E" :> [NewSymbol(<<"E">>) EXCEPT
            !._type = INT,
            !.nodes = << [prompt |-> Prompt(Sym("F")), dep |-> None] >>,
            !.direct_deps = Str(Y)])
     @@ ("Q" :> [NewSymbol(<<"Q">>) EXCEPT
            !._type = INT,
            !.nodes = << [prompt |-> Prompt(None), dep |-> None] >>,
            !.defaults = << <<Sym("E"), None>>, <<Sym("15"), Sym("F")>>,
                            <<Sym("30"), None>> >>,
            !.ranges = << <<Sym("10"), Sym("20"), None>> >>,
            !.direct_deps = Str(Y)])
     @@ ("R" :> [NewSymbol(<<"R">>) EXCEPT
            !._type = HEX,
            !.nodes = << [prompt |-> Prompt(None), dep |-> None] >>,
            !.defaults = << <<Sym("E"), None>>, <<Sym("0x30"), None>> >>,
            !.ranges = << <<Sym("0x10"), Sym("0x20"), Sym("F")>> >>,
            !.direct_deps = Str(Y)]),
     defined_syms |-> <<"F", "E", "Q", "R">>,
     choices |-> <<>>,
     _choices |-> <<>>,
     menu |-> << Sym("F"), Sym("E"), Sym("Q"), Sym("R") >>]

(*  choice                                                                  *)
(*      bool "ch"                                                           *)
(*  config X                                                                *)
(*      bool "x"                                                            *)
(*      default y if Y                                                      *)
(*  config Y                                                                *)
(*      bool "y"                                                            *)
(*  endchoice                                                               *)
KconfigSiblingRef ==
    [syms |->
        ("UNAME_RELEASE" :> UNAME_RELEASE)
     @@ ("MODULES" :> UndefinedMODULES)
     @@ ("X" :> [NewSymbol(<<"X">>) EXCEPT
            !._type = BOOL,
            !.nodes = << [prompt |-> Prompt(None), dep |-> None] >>,
            !.defaults = << <<Str(Y), Sym("Y")>> >>,
            !.direct_deps = Str(Y),
            !.choice = "choice1"])
     @@ ("Y" :> [NewSymbol(<<"Y">>) EXCEPT
            !._type = BOOL,
            !.nodes = << [prompt |-> Prompt(None), dep |-> None] >>,
            !.direct_deps = Str(Y),
            !.choice = "choice1"]),
     defined_syms |-> <<"X", "Y">>,
     choices |->
        ("choice1" :> [NewChoice EXCEPT
            !._type = BOOL,
            !.syms = <<"X", "Y">>,
            !.nodes = << [prompt |-> Prompt(None), dep |-> None] >>]),
     _choices |-> <<"choice1">>,
     menu |-> << <<"Choice", "choice1">>, Sym("X"), Sym("Y") >>]

Kconfigs ==
    <<KconfigModules, KconfigSelect, KconfigChoice, KconfigFiles, KconfigRanges,
      KconfigPrompt, KconfigDefaults, KconfigString, KconfigChoiceDep,
      KconfigNumDefaults, KconfigSiblingRef>>

\* The configurations of the clients that use the whole interface
CfgIds == {1, 2, 3, 4}

\* The configurations of the clients that assign and read values
ValueCfgIds == {5, 7, 10}

\* The configurations of the clients that ask what can be assigned
AssignableCfgIds == {6}

\* The configurations of the clients that write and load strings
StringCfgIds == {8}

\* The configurations of the clients that set the mode of a choice
ChoiceCfgIds == {9}

\* The configurations of the clients that ask for the dependent symbols
DependentCfgIds == {2, 3, 9, 11}

\* self.config.modules
MODULES == "MODULES"

SymNames(kconfig) == DOMAIN kconfig.syms

ChoiceIds(kconfig) == DOMAIN kconfig.choices

----------------------------------------------------------------------------
(* Expression evaluation, visibility and values.  Every operator threads   *)
(* the state through the calls in the order the code makes them, so that   *)
(* the caches are filled exactly where the code fills them (and left alone *)
(* where an and/or short-circuits).                                        *)

R(v, st) == [v |-> v, st |-> st]

SymOf(st, name) == st.kconfig.syms[name]

ChoiceOf(st, c) == st.kconfig.choices[c]

tri_less(v1, v2) == _TRI_TO_INT[v1] < _TRI_TO_INT[v2]

tri_greater(v1, v2) == _TRI_TO_INT[v1] > _TRI_TO_INT[v2]

\* The evaluators call one another, and a value may be read while another is
\* being computed: they reach one another through call, which names the
\* property or function read and the object (or expression) it is read of.
RECURSIVE call(_, _, _)
RECURSIVE _eval_expr_rec(_, _)

eval_expr(expr, st) ==
    IF expr = None THEN R(Y, st) ELSE _eval_expr_rec(expr, st)

_eval_expr_rec(expr, st) ==
    CASE expr[1] = "Symbol" ->
            IF SymOf(st, expr[2])._type \in {BOOL, TRISTATE}
            THEN call("Symbol.value", expr[2], st)
            ELSE R(N, st)
      [] expr[1] = "str" ->
            R(IF expr[2] \in {M, Y} THEN expr[2] ELSE N, st)
      [] expr[1] = "AND" ->
            LET ev1 == _eval_expr_rec(expr[2], st)
            IN  IF ev1.v = N
                THEN R(N, ev1.st)
                ELSE LET ev2 == _eval_expr_rec(expr[3], ev1.st)
                     IN  R(IF ev1.v = Y THEN ev2.v
                           ELSE IF ev2.v # N THEN M
                           ELSE N, ev2.st)
      [] expr[1] = "OR" ->
            LET ev1 == _eval_expr_rec(expr[2], st)
            IN  IF ev1.v = Y
                THEN R(Y, ev1.st)
                ELSE LET ev2 == _eval_expr_rec(expr[3], ev1.st)
                     IN  R(IF ev1.v = N THEN ev2.v
                           ELSE IF ev2.v = Y THEN Y
                           ELSE M, ev2.st)
      [] expr[1] = "NOT" ->
            LET ev == _eval_expr_rec(expr[2], st)
            IN  R(IF ev.v = Y THEN N
                  ELSE IF ev.v = N THEN Y
                  ELSE M, ev.st)

_eval_min(e1, e2, st) ==
    LET e1_eval == call("eval_expr", e1, st)
        e2_eval == call("eval_expr", e2, e1_eval.st)
    IN  R(IF tri_less(e1_eval.v, e2_eval.v) THEN e1_eval.v ELSE e2_eval.v,
          e2_eval.st)

_eval_max(e1, e2, st) ==
    LET e1_eval == call("eval_expr", e1, st)
        e2_eval == call("eval_expr", e2, e1_eval.st)
    IN  R(IF tri_greater(e1_eval.v, e2_eval.v) THEN e1_eval.v ELSE e2_eval.v,
          e2_eval.st)

\* Choice.type
Choice_type(c, st) ==
    IF ChoiceOf(st, c)._type = TRISTATE
    THEN LET modules == call("Symbol.value", MODULES, st)
         IN  R(IF modules.v = N THEN BOOL ELSE TRISTATE, modules.st)
    ELSE R(ChoiceOf(st, c)._type, st)

\* Symbol.type
Symbol_type(name, st) ==
    LET sym == SymOf(st, name)
    IN  IF sym._type # TRISTATE
        THEN R(sym._type, st)
        ELSE LET mode == IF sym.choice # NoSym
                         THEN call("Choice.value", sym.choice, st)
                         ELSE R(None, st)
             IN  IF sym.choice # NoSym /\ mode.v = Y
                 THEN R(BOOL, mode.st)
                 ELSE LET modules == call("Symbol.value", MODULES, mode.st)
                      IN  R(IF modules.v = N THEN BOOL ELSE TRISTATE,
                            modules.st)

\* _get_visibility: the loop over sc.nodes
RECURSIVE _get_visibility_nodes(_, _, _, _)
_get_visibility_nodes(nodes, i, vis, st) ==
    IF i > Len(nodes)
    THEN R(vis, st)
    ELSE IF nodes[i].prompt # None
         THEN LET r == _eval_max(Str(vis), nodes[i].prompt[2], st)
              IN  _get_visibility_nodes(nodes, i + 1, r.v, r.st)
         ELSE _get_visibility_nodes(nodes, i + 1, vis, st)

\* _get_visibility: the final promotion of "m" to "y" of the visibility r.v
_get_visibility_promote(_type, r) ==
    IF r.v = M
    THEN IF _type # TRISTATE
         THEN R(Y, r.st)
         ELSE LET modules == call("Symbol.value", MODULES, r.st)
              IN  R(IF modules.v = N THEN Y ELSE r.v, modules.st)
    ELSE r

\* _get_visibility: a symbol of a choice, r.v being what its prompts give
_get_visibility_choice_sym(name, r) ==
    LET sym == SymOf(r.st, name)
        first == /\ ChoiceOf(r.st, sym.choice)._type = TRISTATE
                 /\ sym._type # TRISTATE
        mode1 == IF first THEN call("Choice.value", sym.choice, r.st)
                          ELSE R(None, r.st)
    IN  IF first /\ mode1.v # Y
        THEN R(N, mode1.st)
        ELSE
        LET second == sym._type = TRISTATE /\ r.v = M
            mode2 == IF second THEN call("Choice.value", sym.choice, mode1.st)
                               ELSE R(None, mode1.st)
        IN  IF second /\ mode2.v = Y
            THEN R(N, mode2.st)
            ELSE
            LET cvis == call("Choice.visibility", sym.choice, mode2.st)
            IN  _get_visibility_promote(sym._type,
                    _eval_min(Str(r.v), Str(cvis.v), cvis.st))

\* _get_visibility: sc is <<"Symbol", name>> or <<"Choice", id>>
_get_visibility(sc, st) ==
    IF sc[1] = "Choice"
    THEN _get_visibility_promote(ChoiceOf(st, sc[2])._type,
             _get_visibility_nodes(ChoiceOf(st, sc[2]).nodes, 1, N, st))
    ELSE IF SymOf(st, sc[2]).choice = NoSym
    THEN _get_visibility_promote(SymOf(st, sc[2])._type,
             _get_visibility_nodes(SymOf(st, sc[2]).nodes, 1, N, st))
    ELSE _get_visibility_choice_sym(sc[2],
             _get_visibility_nodes(SymOf(st, sc[2]).nodes, 1, N, st))

Symbol_visibility(name, st) ==
    IF st.cached_vis[name] # None
    THEN R(st.cached_vis[name], st)
    ELSE LET r == _get_visibility(Sym(name), st)
         IN  R(r.v, [r.st EXCEPT !.cached_vis[name] = r.v])

Choice_visibility(c, st) ==
    IF st.ch_cached_vis[c] # None
    THEN R(st.ch_cached_vis[c], st)
    ELSE LET r == _get_visibility(<<"Choice", c>>, st)
         IN  R(r.v, [r.st EXCEPT !.ch_cached_vis[c] = r.v])

Choice_value(c, st) ==
    LET choice == ChoiceOf(st, c)
        user == IF st.ch_user_value[c] # None
                THEN LET vis == call("Choice.visibility", c, st)
                     IN  _eval_min(Str(st.ch_user_value[c]), Str(vis.v), vis.st)
                ELSE R(N, st)
        val == IF user.v = N /\ ~choice.is_optional THEN M ELSE user.v
    IN  IF val = M
        THEN LET type == call("Choice.type", c, user.st)
             IN  R(IF type.v = BOOL THEN Y ELSE val, type.st)
        ELSE R(val, user.st)

----------------------------------------------------------------------------
(* Numbers in strings: Python's int(s, base), str(n) and hex(n), over the  *)
(* characters 0-9, a-f, x and the sign.                                    *)

DigitVal ==
    ("0" :> 0) @@ ("1" :> 1) @@ ("2" :> 2) @@ ("3" :> 3) @@ ("4" :> 4) @@
    ("5" :> 5) @@ ("6" :> 6) @@ ("7" :> 7) @@ ("8" :> 8) @@ ("9" :> 9) @@
    ("a" :> 10) @@ ("b" :> 11) @@ ("c" :> 12) @@ ("d" :> 13) @@ ("e" :> 14) @@
    ("f" :> 15)

DigitChar == <<"0", "1", "2", "3", "4", "5", "6", "7", "8", "9",
               "a", "b", "c", "d", "e", "f">>

StripSign(s) ==
    IF Len(s) > 0 /\ s[1] \in {"-", "+"} THEN Tail(s) ELSE s

StripPrefix(s, base) ==
    IF base = 16 /\ Len(s) >= 2 /\ s[1] = "0" /\ s[2] = "x"
    THEN SubSeq(s, 3, Len(s))
    ELSE s

IsDigits(s, base) ==
    /\ Len(s) > 0
    /\ \A i \in 1..Len(s) : s[i] \in DOMAIN DigitVal /\ DigitVal[s[i]] < base

\* int(s, n) succeeds
_is_base_n(s, n) == IsDigits(StripPrefix(StripSign(s), n), n)

RECURSIVE DigitsToNat(_, _)
DigitsToNat(s, base) ==
    IF Len(s) = 0 THEN 0
    ELSE DigitsToNat(SubSeq(s, 1, Len(s) - 1), base) * base + DigitVal[s[Len(s)]]

\* int(s, base), for a string with _is_base_n(s, base)
ParseInt(s, base) ==
    LET mag == DigitsToNat(StripPrefix(StripSign(s), base), base)
    IN  IF Len(s) > 0 /\ s[1] = "-" THEN 0 - mag ELSE mag

RECURSIVE NatToDigits(_, _)
NatToDigits(n, base) ==
    IF n < base THEN <<DigitChar[n + 1]>>
    ELSE Append(NatToDigits(n \div base, base), DigitChar[(n % base) + 1])

\* str(n)
IntToStr(n) ==
    IF n < 0 THEN <<"-">> \o NatToDigits(0 - n, 10) ELSE NatToDigits(n, 10)

\* hex(n)
IntToHex(n) ==
    IF n < 0 THEN <<"-", "0", "x">> \o NatToDigits(0 - n, 16)
    ELSE <<"0", "x">> \o NatToDigits(n, 16)

_TYPE_TO_BASE ==
    (BOOL :> 0) @@ (HEX :> 16) @@ (INT :> 10) @@ (STRING_TYPE :> 0) @@
    (TRISTATE :> 0) @@ (UNKNOWN :> 0)

\* _str_val: the operand of a default or range is a str or a Symbol
_str_val(obj, st) ==
    IF obj[1] = "str" THEN R(obj[2], st) ELSE call("Symbol.value", obj[2], st)

----------------------------------------------------------------------------
(* Symbol.value *)

\* The scan of the defaults stopping at the first default whatever its
\* condition: C16 does not hold of a Symbol.value that takes a default whose
\* condition is "n"
Symbol_value_tri_defaults_unconditional(defaults, i, st) ==
    IF i > Len(defaults)
    THEN [val |-> N, write |-> FALSE, st |-> st]
    ELSE [val |-> _eval_min(defaults[i][1], Str(Y), st).v, write |-> TRUE,
          st |-> st]

\* Symbol.value, bool/tristate outside a choice: the scan of the defaults
RECURSIVE Symbol_value_tri_defaults(_, _, _)
Symbol_value_tri_defaults(defaults, i, st) ==
    IF i > Len(defaults)
    THEN [val |-> N, write |-> FALSE, st |-> st]
    ELSE LET cond_val == call("eval_expr", defaults[i][2], st)
         IN  IF cond_val.v # N
             THEN LET r == _eval_min(defaults[i][1], Str(cond_val.v), cond_val.st)
                  IN  [val |-> r.v, write |-> TRUE, st |-> r.st]
             ELSE Symbol_value_tri_defaults(defaults, i + 1, cond_val.st)

\* Symbol.value, bool/tristate outside a choice: the user value, when the
\* symbol is visible and has one
Symbol_value_tri_user(name, vis, st) ==
    LET r == _eval_min(Str(st.user_value[name]), Str(vis), st)
    IN  [val |-> r.v, write |-> vis # N, st |-> r.st]

\* Symbol_value_tri_weak with the imply statements left out: C6 does not hold
\* of a Symbol.value that takes the defaults alone
Symbol_value_tri_weak_ignored(name, vis, d) ==
    [val |-> d.val, write |-> (vis # N) \/ d.write, st |-> d.st]

\* Symbol.value, bool/tristate outside a choice: the weak reverse
\* dependencies (from imply) on top of what the scan of the defaults gave (d)
Symbol_value_tri_weak(name, vis, d) ==
    LET sym == SymOf(d.st, name)
        deps == call("eval_expr", sym.direct_deps, d.st)
    IN  IF deps.v # N
        THEN LET weak == call("eval_expr", sym.weak_rev_dep, deps.st)
             IN  IF weak.v # N
                 THEN [val |-> _eval_max(Str(d.val), Str(weak.v), weak.st).v,
                       write |-> TRUE, st |-> weak.st]
                 ELSE [val |-> d.val, write |-> (vis # N) \/ d.write,
                       st |-> weak.st]
        ELSE [val |-> d.val, write |-> (vis # N) \/ d.write, st |-> deps.st]

\* Symbol_value_tri_rev with the select statements left out: C5 does not hold
\* of a Symbol.value that stops at the user value, defaults and implies
Symbol_value_tri_rev_ignored(name, acc) == acc

\* Symbol.value, bool/tristate outside a choice: the reverse dependencies
\* (from select) on top of the value so far
Symbol_value_tri_rev(name, acc) ==
    LET rev == call("eval_expr", SymOf(acc.st, name).rev_dep, acc.st)
    IN  IF rev.v # N
        THEN [val |-> _eval_max(Str(acc.val), Str(rev.v), rev.st).v,
              write |-> TRUE, st |-> rev.st]
        ELSE [acc EXCEPT !.st = rev.st]

\* Symbol.value, bool/tristate outside a choice
Symbol_value_tri(name, vis, st) ==
    Symbol_value_tri_rev(name,
        IF vis # N /\ st.user_value[name] # None
        THEN Symbol_value_tri_user(name, vis, st)
        ELSE Symbol_value_tri_weak(name, vis,
                 Symbol_value_tri_defaults(SymOf(st, name).defaults, 1, st)))

\* Symbol.value, bool/tristate symbol in a choice
Symbol_value_choice(name, vis, st) ==
    LET sym == SymOf(st, name)
    IN  IF vis = N
        THEN [val |-> N, write |-> FALSE, st |-> st]
        ELSE LET mode == call("Choice.value", sym.choice, st)
             IN  IF mode.v = N
                 THEN [val |-> N, write |-> FALSE, st |-> mode.st]
                 ELSE IF mode.v = Y
                 THEN LET sel == call("Choice.selection", sym.choice, mode.st)
                      IN  [val |-> IF sel.v = name THEN Y ELSE N,
                           write |-> TRUE, st |-> sel.st]
                 ELSE [val |-> IF st.user_value[name] \in {M, Y} THEN M ELSE N,
                       write |-> TRUE, st |-> mode.st]

\* Symbol.value, bool/tristate: the promotion of "m" to "y"
Symbol_value_promote(name, acc) ==
    IF acc.val = M
    THEN LET type == call("Symbol.type", name, acc.st)
         IN  IF type.v = BOOL
             THEN [acc EXCEPT !.val = Y, !.st = type.st]
             ELSE LET weak == call("eval_expr", SymOf(acc.st, name).weak_rev_dep, type.st)
                  IN  [acc EXCEPT !.val = IF weak.v = Y THEN Y ELSE M,
                                  !.st = weak.st]
    ELSE acc

\* Symbol.value, int/hex: the range in effect
RECURSIVE Symbol_value_range(_, _, _, _)
Symbol_value_range(ranges, i, base, st) ==
    IF i > Len(ranges)
    THEN [has_active_range |-> FALSE, low |-> 0, high |-> 0, st |-> st]
    ELSE LET cond == call("eval_expr", ranges[i][3], st)
         IN  IF cond.v # N
             THEN LET low_str == _str_val(ranges[i][1], cond.st)
                      high_str == _str_val(ranges[i][2], low_str.st)
                  IN  [has_active_range |-> TRUE,
                       low |-> IF _is_base_n(low_str.v, base)
                               THEN ParseInt(low_str.v, base) ELSE 0,
                       high |-> IF _is_base_n(high_str.v, base)
                                THEN ParseInt(high_str.v, base) ELSE 0,
                       st |-> high_str.st]
             ELSE Symbol_value_range(ranges, i + 1, base, cond.st)

\* Symbol.value, int/hex: the scan of the defaults.  A default that is not a
\* number is taken without leaving the loop.
RECURSIVE Symbol_value_num_defaults(_, _, _, _, _)
Symbol_value_num_defaults(defaults, i, _type, rng, acc) ==
    IF i > Len(defaults)
    THEN IF rng.has_active_range /\ rng.low > 0
         THEN [acc EXCEPT !.val = IF _type = HEX THEN IntToHex(rng.low)
                                                 ELSE IntToStr(rng.low)]
         ELSE acc
    ELSE LET base == _TYPE_TO_BASE[_type]
             cond == call("eval_expr", defaults[i][2], acc.st)
         IN  IF cond.v # N
             THEN LET val == _str_val(defaults[i][1], cond.st)
                  IN  IF _is_base_n(val.v, base)
                      THEN LET val_num == ParseInt(val.v, base)
                               clamped ==
                                   IF ~rng.has_active_range THEN val.v
                                   ELSE IF val_num < rng.low
                                   THEN IF _type = HEX THEN IntToHex(rng.low)
                                                       ELSE IntToStr(rng.low)
                                   ELSE IF val_num > rng.high
                                   THEN IF _type = HEX THEN IntToHex(rng.high)
                                                       ELSE IntToStr(rng.high)
                                   ELSE val.v
                           IN  [val |-> clamped, write |-> TRUE, st |-> val.st]
                      ELSE Symbol_value_num_defaults(defaults, i + 1, _type, rng,
                               [val |-> val.v, write |-> TRUE, st |-> val.st])
             ELSE Symbol_value_num_defaults(defaults, i + 1, _type, rng,
                      [acc EXCEPT !.st = cond.st])

\* Symbol_value_num_user without the test of the range: C14 does not hold of
\* a value that takes a user value outside the range
Symbol_value_num_user_unranged(name, vis, rng) ==
    LET sym == SymOf(rng.st, name)
        uv == rng.st.user_value[name]
    IN  IF vis # N /\ uv # None /\ _is_base_n(uv, _TYPE_TO_BASE[sym._type])
        THEN [val |-> uv, write |-> vis # N, st |-> rng.st]
        ELSE Symbol_value_num_defaults(sym.defaults, 1, sym._type, rng,
                 [val |-> _DEFAULT_VALUE[sym._type], write |-> vis # N,
                  st |-> rng.st])

\* Symbol.value, int/hex: the user value if it is a number within the range in
\* effect (rng), else the defaults
Symbol_value_num_user(name, vis, rng) ==
    LET sym == SymOf(rng.st, name)
        base == _TYPE_TO_BASE[sym._type]
        uv == rng.st.user_value[name]
    IN  IF /\ vis # N
           /\ uv # None
           /\ _is_base_n(uv, base)
           /\ (~rng.has_active_range
               \/ (rng.low <= ParseInt(uv, base) /\ ParseInt(uv, base) <= rng.high))
        THEN [val |-> uv, write |-> vis # N, st |-> rng.st]
        ELSE Symbol_value_num_defaults(sym.defaults, 1, sym._type, rng,
                 [val |-> _DEFAULT_VALUE[sym._type], write |-> vis # N,
                  st |-> rng.st])

\* Symbol.value, int/hex
Symbol_value_num(name, vis, st) ==
    Symbol_value_num_user(name, vis,
        Symbol_value_range(SymOf(st, name).ranges, 1,
            _TYPE_TO_BASE[SymOf(st, name)._type], st))

\* Symbol.value, string: the scan of the defaults
RECURSIVE Symbol_value_str_defaults(_, _, _)
Symbol_value_str_defaults(defaults, i, acc) ==
    IF i > Len(defaults)
    THEN acc
    ELSE LET cond == call("eval_expr", defaults[i][2], acc.st)
         IN  IF cond.v # N
             THEN LET val == _str_val(defaults[i][1], cond.st)
                  IN  [val |-> val.v, write |-> TRUE, st |-> val.st]
             ELSE Symbol_value_str_defaults(defaults, i + 1,
                      [acc EXCEPT !.st = cond.st])

\* Symbol.value, string
Symbol_value_str(name, vis, st) ==
    IF vis # N /\ st.user_value[name] # None
    THEN [val |-> st.user_value[name], write |-> TRUE, st |-> st]
    ELSE Symbol_value_str_defaults(SymOf(st, name).defaults, 1,
             [val |-> _DEFAULT_VALUE[STRING_TYPE], write |-> vis # N, st |-> st])

\* Symbol.value: the value computed is cached, and write_to_conf set
Symbol_value_cache(name, acc) ==
    R(acc.val, [acc.st EXCEPT !.cached_val[name] = acc.val,
                              !.write_to_conf[name] = acc.write])

Symbol_value(name, st) ==
    LET sym == SymOf(st, name)
    IN  IF st.cached_val[name] # None
        THEN R(st.cached_val[name], st)
        ELSE IF sym._type = UNKNOWN
        THEN R(sym.name, [st EXCEPT !.cached_val[name] = sym.name])
        ELSE LET vis == call("Symbol.visibility", name, st)
             IN  Symbol_value_cache(name,
                     CASE sym._type \in {BOOL, TRISTATE} ->
                            Symbol_value_promote(name,
                                IF sym.choice = NoSym
                                THEN Symbol_value_tri(name, vis.v, vis.st)
                                ELSE Symbol_value_choice(name, vis.v, vis.st))
                       [] sym._type \in {INT, HEX} ->
                            Symbol_value_num(name, vis.v, vis.st)
                       [] sym._type = STRING_TYPE ->
                            Symbol_value_str(name, vis.v, vis.st))

----------------------------------------------------------------------------
(* Choice.selection, and the assignable values *)

\* Choice.default_selection: the loop over the defaults
RECURSIVE Choice_default_selection_defaults(_, _, _)
Choice_default_selection_defaults(defaults, i, st) ==
    IF i > Len(defaults)
    THEN R(NoSym, st)
    ELSE LET cond == call("eval_expr", defaults[i][2], st)
         IN  IF cond.v # N
             THEN LET vis == call("Symbol.visibility", defaults[i][1], cond.st)
                  IN  IF vis.v # N
                      THEN R(defaults[i][1], vis.st)
                      ELSE Choice_default_selection_defaults(defaults, i + 1, vis.st)
             ELSE Choice_default_selection_defaults(defaults, i + 1, cond.st)

\* Choice.default_selection: the first visible symbol
RECURSIVE Choice_default_selection_syms(_, _, _)
Choice_default_selection_syms(syms, i, st) ==
    IF i > Len(syms)
    THEN R(NoSym, st)
    ELSE LET vis == call("Symbol.visibility", syms[i], st)
         IN  IF vis.v # N
             THEN R(syms[i], vis.st)
             ELSE Choice_default_selection_syms(syms, i + 1, vis.st)

Choice_default_selection(c, st) ==
    LET d == Choice_default_selection_defaults(ChoiceOf(st, c).defaults, 1, st)
    IN  IF d.v # NoSym
        THEN d
        ELSE Choice_default_selection_syms(ChoiceOf(st, c).syms, 1, d.st)

Choice_selection(c, st) ==
    IF st.ch_cached_selection[c] # _NO_CACHED_SELECTION
    THEN R(st.ch_cached_selection[c], st)
    ELSE LET mode == call("Choice.value", c, st)
         IN  IF mode.v # Y
             THEN R(NoSym, [mode.st EXCEPT !.ch_cached_selection[c] = NoSym])
             ELSE LET us == st.ch_user_selection[c]
                      vis == IF us # NoSym THEN call("Symbol.visibility", us, mode.st)
                                           ELSE R(None, mode.st)
                  IN  IF us # NoSym /\ vis.v = Y
                      THEN R(us, [vis.st EXCEPT !.ch_cached_selection[c] = us])
                      ELSE LET d == Choice_default_selection(c, vis.st)
                           IN  R(d.v, [d.st EXCEPT !.ch_cached_selection[c] = d.v])

\* Symbol._get_assignable: type bool, or implied to "y"
Symbol_get_assignable_boolish(name, st) ==
    LET type == call("Symbol.type", name, st)
    IN  IF type.v = BOOL
        THEN R(TRUE, type.st)
        ELSE LET weak == call("eval_expr", SymOf(st, name).weak_rev_dep, type.st)
             IN  R(weak.v = Y, weak.st)

Symbol_get_assignable(name, st) ==
    LET sym == SymOf(st, name)
    IN  IF sym._type \notin {BOOL, TRISTATE}
        THEN R(<<>>, st)
        ELSE
        LET vis == call("Symbol.visibility", name, st)
        IN  IF vis.v = N
            THEN R(<<>>, vis.st)
            ELSE
            LET rev_dep_val == call("eval_expr", sym.rev_dep, vis.st)
            IN  IF vis.v = Y
                THEN IF rev_dep_val.v = N
                     THEN LET b == Symbol_get_assignable_boolish(name, rev_dep_val.st)
                          IN  R(IF b.v THEN <<"n", "y">> ELSE <<"n", "m", "y">>, b.st)
                     ELSE IF rev_dep_val.v = Y
                     THEN R(<<"y">>, rev_dep_val.st)
                     ELSE LET b == Symbol_get_assignable_boolish(name, rev_dep_val.st)
                          IN  R(IF b.v THEN <<"y">> ELSE <<"m", "y">>, b.st)
                ELSE IF rev_dep_val.v = N
                     THEN LET weak == call("eval_expr", sym.weak_rev_dep, rev_dep_val.st)
                          IN  R(IF weak.v # Y THEN <<"m">> ELSE <<"y">>, weak.st)
                     ELSE IF rev_dep_val.v = Y
                     THEN R(<<"y">>, rev_dep_val.st)
                     ELSE R(<<"m">>, rev_dep_val.st)

Symbol_assignable(name, st) ==
    IF st.cached_assignable[name] # None
    THEN R(st.cached_assignable[name], st)
    ELSE LET r == Symbol_get_assignable(name, st)
         IN  R(r.v, [r.st EXCEPT !.cached_assignable[name] = r.v])

Choice_get_assignable(c, st) ==
    LET vis == call("Choice.visibility", c, st)
    IN  IF vis.v = N
        THEN R(<<>>, vis.st)
        ELSE IF vis.v = Y
        THEN IF ~ChoiceOf(st, c).is_optional
             THEN LET type == call("Choice.type", c, vis.st)
                  IN  R(IF type.v = BOOL THEN <<"y">> ELSE <<"m", "y">>, type.st)
             ELSE R(<<"y">>, vis.st)
        ELSE R(IF ChoiceOf(st, c).is_optional THEN <<"n", "m">> ELSE <<"m">>, vis.st)

Choice_assignable(c, st) ==
    IF st.ch_cached_assignable[c] # None
    THEN R(st.ch_cached_assignable[c], st)
    ELSE LET r == Choice_get_assignable(c, st)
         IN  R(r.v, [r.st EXCEPT !.ch_cached_assignable[c] = r.v])

----------------------------------------------------------------------------
(* Dependency tracking (for caching and invalidation) *)

RECURSIVE _expr_syms_rec(_)
_expr_syms_rec(expr) ==
    CASE expr[1] = "Symbol" -> {expr[2]}
      [] expr[1] = "str" -> {}
      [] expr[1] \in {"AND", "OR"} ->
            _expr_syms_rec(expr[2]) \cup _expr_syms_rec(expr[3])
      [] expr[1] = "NOT" -> _expr_syms_rec(expr[2])

_expr_syms(expr) == IF expr = None THEN {} ELSE _expr_syms_rec(expr)

\* Config._build_dep: the symbols add_expr_deps is called with for sym, that
\* is, the symbols that get sym as a direct dependent
add_expr_deps(kconfig, name) ==
    LET sym == kconfig.syms[name]
        prompts(nodes) ==
            UNION {IF nodes[i].prompt # None THEN _expr_syms(nodes[i].prompt[2])
                   ELSE {} : i \in DOMAIN nodes}
    IN  prompts(sym.nodes)
        \cup UNION {_expr_syms(sym.defaults[i][1]) \cup _expr_syms(sym.defaults[i][2]) :
                    i \in DOMAIN sym.defaults}
        \cup _expr_syms(sym.rev_dep)
        \cup _expr_syms(sym.weak_rev_dep)
        \cup UNION {_expr_syms(sym.ranges[i][1]) \cup _expr_syms(sym.ranges[i][2])
                    \cup _expr_syms(sym.ranges[i][3]) : i \in DOMAIN sym.ranges}
        \cup _expr_syms(sym.direct_deps)
        \cup (IF sym.choice # NoSym
              THEN LET choice == kconfig.choices[sym.choice]
                   IN  prompts(choice.nodes)
                       \cup UNION {_expr_syms(choice.defaults[i][2]) :
                                   i \in DOMAIN choice.defaults}
              ELSE {})

\* Symbol._direct_dependents, as Config._build_dep leaves it
_direct_dependents(kconfig, name) ==
    {kconfig.defined_syms[i] : i \in
        {j \in DOMAIN kconfig.defined_syms :
            name \in add_expr_deps(kconfig, kconfig.defined_syms[j])}}

\* Symbol._get_dependent: symbols as <<"Symbol", name>>, choices as
\* <<"Choice", id>>
RECURSIVE _get_dependent(_, _)
_get_dependent(kconfig, name) ==
    LET sym == kconfig.syms[name]
        closure(s) ==
            {Sym(d) : d \in _direct_dependents(kconfig, s)}
            \cup UNION {_get_dependent(kconfig, d) : d \in _direct_dependents(kconfig, s)}
        siblings ==
            IF sym.choice = NoSym THEN {}
            ELSE {kconfig.choices[sym.choice].syms[i] :
                    i \in DOMAIN kconfig.choices[sym.choice].syms} \ {name}
    IN  closure(name)
        \cup (IF sym.choice # NoSym THEN {<<"Choice", sym.choice>>} ELSE {})
        \cup {Sym(s) : s \in siblings}
        \cup UNION {closure(s) : s \in siblings}

\* Symbol._invalidate
Symbol_invalidate(name, st) ==
    [st EXCEPT !.cached_val[name] = None, !.cached_vis[name] = None,
               !.cached_assignable[name] = None]

\* Choice._invalidate
Choice_invalidate(c, st) ==
    [st EXCEPT !.ch_cached_selection[c] = _NO_CACHED_SELECTION,
               !.ch_cached_vis[c] = None, !.ch_cached_assignable[c] = None]

\* item._invalidate() for every item of a collection
RECURSIVE InvalidateItems(_, _)
InvalidateItems(items, st) ==
    IF items = {} THEN st
    ELSE LET item == CHOOSE i \in items : TRUE
         IN  InvalidateItems(items \ {item},
                 IF item[1] = "Choice" THEN Choice_invalidate(item[2], st)
                                       ELSE Symbol_invalidate(item[2], st))

\* Symbol._rec_invalidate
_rec_invalidate(name, st) ==
    InvalidateItems(_get_dependent(st.kconfig, name), Symbol_invalidate(name, st))

\* Config._invalidate_all
_invalidate_all(st) ==
    LET k == st.kconfig
    IN  InvalidateItems(
            {Sym(k.defined_syms[i]) : i \in DOMAIN k.defined_syms}
            \cup {<<"Choice", k._choices[i]>> : i \in DOMAIN k._choices}, st)

----------------------------------------------------------------------------
(* Assignments *)

\* Every value passing for valid: C13 does not hold of an assignment that
\* stores whatever it is given
ValidForType_any(_type, value) == TRUE

\* Symbol._set_value_no_invalidate: the value is valid for the type
ValidForType(_type, value) ==
    \/ _type = BOOL /\ value \in {N, Y}
    \/ _type = TRISTATE /\ value \in {N, M, Y}
    \/ _type = STRING_TYPE
    \/ _type = INT /\ _is_base_n(value, 10)
    \/ _type = HEX /\ _is_base_n(value, 16)

\* _set_value_no_invalidate without its last step, the update of the choice:
\* C9 does not hold of an assignment that leaves the mode and the user
\* selection of the choice alone
_set_value_no_invalidate_symbol_only(name, value, st) ==
    IF ~ValidForType(SymOf(st, name)._type, value)
    THEN st
    ELSE [st EXCEPT !.user_value[name] = value]

\* Symbol._set_value_no_invalidate (the warnings are not part of the state)
_set_value_no_invalidate(name, value, st) ==
    LET sym == SymOf(st, name)
    IN  IF ~ValidForType(sym._type, value)
        THEN st
        ELSE LET st1 == [st EXCEPT !.user_value[name] = value]
             IN  IF sym.choice # NoSym /\ sym._type \in {BOOL, TRISTATE}
                 THEN IF value = Y
                      THEN [st1 EXCEPT !.ch_user_selection[sym.choice] = name,
                                       !.ch_user_value[sym.choice] = Y]
                      ELSE IF value = M
                      THEN [st1 EXCEPT !.ch_user_value[sym.choice] = M]
                      ELSE st1
                 ELSE st1

\* Symbol.set_value
Symbol_set_value(name, value, st) ==
    LET st1 == _set_value_no_invalidate(name, value, st)
    IN  IF name = MODULES THEN _invalidate_all(st1) ELSE _rec_invalidate(name, st1)

\* Symbol.unset_value
Symbol_unset_value(name, st) ==
    _rec_invalidate(name, [st EXCEPT !.user_value[name] = None])

\* Choice.set_value (the value is stored whether or not it is valid)
Choice_set_value(c, value, st) ==
    LET st1 == [st EXCEPT !.ch_user_value[c] = value]
    IN  IF Len(ChoiceOf(st, c).syms) > 0
        THEN _rec_invalidate(ChoiceOf(st, c).syms[1], st1)
        ELSE st1

\* Choice.unset_value
Choice_unset_value(c, st) ==
    LET st1 == [st EXCEPT !.ch_user_value[c] = None,
                          !.ch_user_selection[c] = NoSym]
    IN  IF Len(ChoiceOf(st, c).syms) > 0
        THEN _rec_invalidate(ChoiceOf(st, c).syms[1], st1)
        ELSE st1

\* Config.unset_values
RECURSIVE unset_values_syms(_, _, _)
unset_values_syms(defined_syms, i, st) ==
    IF i > Len(defined_syms) THEN st
    ELSE unset_values_syms(defined_syms, i + 1,
             Symbol_invalidate(defined_syms[i],
                 [st EXCEPT !.user_value[defined_syms[i]] = None]))

RECURSIVE unset_values_choices(_, _, _)
unset_values_choices(_choices, i, st) ==
    IF i > Len(_choices) THEN st
    ELSE unset_values_choices(_choices, i + 1,
             Choice_invalidate(_choices[i],
                 [st EXCEPT !.ch_user_value[_choices[i]] = None,
                            !.ch_user_selection[_choices[i]] = NoSym]))

unset_values(st) ==
    unset_values_choices(st.kconfig._choices, 1,
        unset_values_syms(st.kconfig.defined_syms, 1, st))

----------------------------------------------------------------------------
(* Strings: the str methods and the regular expressions of the .config     *)
(* reader                                                                  *)

StartsWith(s, prefix) ==
    Len(s) >= Len(prefix) /\ SubSeq(s, 1, Len(prefix)) = prefix

\* s[i:], with i counted from 0
From(s, i) == SubSeq(s, i + 1, Len(s))

\* str.rstrip()
RECURSIVE rstrip(_)
rstrip(s) ==
    IF Len(s) > 0 /\ s[Len(s)] \in {" ", "\t", "\n", "\r"}
    THEN rstrip(SubSeq(s, 1, Len(s) - 1))
    ELSE s

\* str.replace(old, new), for a non-empty old
RECURSIVE replace(_, _, _)
replace(s, old, new) ==
    IF Len(s) = 0 THEN <<>>
    ELSE IF StartsWith(s, old) THEN new \o replace(From(s, Len(old)), old, new)
    ELSE <<s[1]>> \o replace(Tail(s), old, new)

\* The characters \w matches
WordChars ==
    {"A", "B", "C", "D", "E", "F", "G", "H", "I", "J", "K", "L", "M", "N",
    "O", "P", "Q", "R", "S", "T", "U", "V", "W", "X", "Y", "Z"}
    \cup {"a", "b", "c", "d", "e", "f", "g", "h", "i", "j", "k", "l", "m",
         "n", "o", "p", "q", "r", "s", "t", "u", "v", "w", "x", "y", "z"}
    \cup {"0", "1", "2", "3", "4", "5", "6", "7", "8", "9"}
    \cup {"_"}

\* The length of the longest prefix of s that \w+ matches
RECURSIVE WordLen(_)
WordLen(s) ==
    IF Len(s) > 0 /\ s[1] \in WordChars THEN 1 + WordLen(Tail(s)) ELSE 0

\* Config.config_prefix
config_prefix == <<"C", "O", "N", "F", "I", "G", "_">>

\* self._set_re.match(line), _set_re being prefix(\w+)=(.*)
set_re_match(line) ==
    LET rest == From(line, Len(config_prefix))
        n == WordLen(rest)
    IN  IF StartsWith(line, config_prefix) /\ n > 0 /\ Len(rest) > n
           /\ rest[n + 1] = "="
        THEN [matched |-> TRUE, name |-> SubSeq(rest, 1, n), val |-> From(rest, n + 1)]
        ELSE [matched |-> FALSE, name |-> <<>>, val |-> <<>>]

\* unset_re_match matching no line: C7 does not hold of a load_config that
\* skips the "# CONFIG_X is not set" lines
unset_re_match_none(line) == [matched |-> FALSE, name |-> <<>>]

\* self._unset_re.match(line), _unset_re being "# prefix(\w+) is not set"
unset_re_match(line) ==
    LET start == <<"#", " ">> \o config_prefix
        rest == From(line, Len(start))
        n == WordLen(rest)
    IN  IF StartsWith(line, start) /\ n > 0
           /\ StartsWith(From(rest, n),
                  <<" ", "i", "s", " ", "n", "o", "t", " ", "s", "e", "t">>)
        THEN [matched |-> TRUE, name |-> SubSeq(rest, 1, n)]
        ELSE [matched |-> FALSE, name |-> <<>>]

\* The key of self.syms for a name; NoSym when name not in syms
KeyOf(kconfig, name) ==
    IF \E key \in SymNames(kconfig) : kconfig.syms[key].name = name
    THEN CHOOSE key \in SymNames(kconfig) : kconfig.syms[key].name = name
    ELSE NoSym

----------------------------------------------------------------------------
(* Config.load_config.  A file is the sequence of its lines.  The result   *)
(* is [st |-> the state after the call, warnings |-> the warnings printed  *)
(* with the default settings (warn=True, undefined assignments silent)].   *)

\* The warnings of Symbol._set_value_no_invalidate
_set_value_warnings(name, value, suppress_prompt_warning, st) ==
    LET sym == SymOf(st, name)
    IN  IF ~ValidForType(sym._type, value)
        THEN <<"invalid value">>
        ELSE IF ~suppress_prompt_warning
                /\ \A i \in DOMAIN sym.nodes : sym.nodes[i].prompt = None
        THEN <<"promptless symbol">>
        ELSE <<>>

\* load_config: "Done parsing the assignment. Set the value."
load_config_assign(name, val, acc) ==
    [st |-> _set_value_no_invalidate(name, val, acc.st),
     warnings |-> acc.warnings
        \o (IF acc.st.user_value[name] # None THEN <<"set more than once">>
            ELSE <<>>)
        \o _set_value_warnings(name, val, TRUE, acc.st)]

\* load_config_parse taking the text between the quotes as it stands: C18
\* does not hold of a load_config that leaves the escapes in place
load_config_parse_escaped(kconfig, line) ==
    LET set_match == set_re_match(rstrip(line))
        name == KeyOf(kconfig, set_match.name)
        val == set_match.val
    IN  IF set_match.matched /\ name # NoSym
        THEN [assign |-> TRUE, malformed |-> FALSE, name |-> name,
              val |-> IF kconfig.syms[name]._type = STRING_TYPE /\ Len(val) >= 2
                      THEN SubSeq(val, 2, Len(val) - 1) ELSE val]
        ELSE [assign |-> FALSE, malformed |-> FALSE, name |-> NoSym, val |-> <<>>]

\* load_config: the parsing of one line.  The result says whether the line
\* is an assignment the loop goes on to set (assign), to which symbol and of
\* which value, or else whether it is a malformed string literal.
load_config_parse(kconfig, line) ==
    LET stripped == rstrip(line)
        set_match == set_re_match(stripped)
        unset_match == unset_re_match(stripped)
        skip == [assign |-> FALSE, malformed |-> FALSE, name |-> NoSym, val |-> <<>>]
    IN  IF set_match.matched
        THEN LET name == KeyOf(kconfig, set_match.name)
                 val == set_match.val
                 quoted == /\ name # NoSym
                           /\ kconfig.syms[name]._type = STRING_TYPE
                           /\ StartsWith(val, <<"\"">>)
             IN  IF name = NoSym
                 THEN skip
                 ELSE IF quoted /\ (Len(val) < 2 \/ val[Len(val)] # "\"")
                 THEN [skip EXCEPT !.malformed = TRUE]
                 ELSE [assign |-> TRUE, malformed |-> FALSE, name |-> name,
                       val |-> IF quoted
                               THEN replace(replace(SubSeq(val, 2, Len(val) - 1),
                                                <<"\\", "\"">>, <<"\"">>),
                                        <<"\\", "\\">>, <<"\\">>)
                               ELSE val]
        ELSE IF unset_match.matched /\ KeyOf(kconfig, unset_match.name) # NoSym
        THEN [assign |-> TRUE, malformed |-> FALSE,
              name |-> KeyOf(kconfig, unset_match.name), val |-> N]
        ELSE skip

\* load_config: the body of the loop over the lines
load_config_line(line, acc) ==
    LET p == load_config_parse(acc.st.kconfig, line)
        set_match == set_re_match(rstrip(line))
        choice == IF p.assign THEN SymOf(acc.st, p.name).choice ELSE NoSym
        mode == IF choice # NoSym THEN acc.st.ch_user_value[choice] ELSE None
    IN  IF p.malformed
        THEN [acc EXCEPT !.warnings = @ \o <<"malformed string literal">>]
        ELSE IF ~p.assign
        THEN acc
        ELSE load_config_assign(p.name, p.val,
                 IF set_match.matched /\ choice # NoSym /\ mode # None
                    /\ mode # p.val
                 THEN [acc EXCEPT !.warnings = @ \o <<"changes mode">>]
                 ELSE acc)

RECURSIVE load_config_lines(_, _, _)
load_config_lines(f, linenr, acc) ==
    IF linenr > Len(f) THEN acc
    ELSE load_config_lines(f, linenr + 1, load_config_line(f[linenr], acc))

load_config(f, replace_, st) ==
    load_config_lines(f, 1,
        [st |-> IF replace_ THEN unset_values(st) ELSE _invalidate_all(st),
         warnings |-> <<>>])

----------------------------------------------------------------------------
(* Config.write_config *)

\* Symbol.config_string, as the lines of the string (None for no string)
Symbol_config_string(name, st) ==
    LET sym == SymOf(st, name)
    IN  IF sym.env_var
        THEN R(None, st)
        ELSE LET val == call("Symbol.value", name, st)
             IN  IF ~val.st.write_to_conf[name]
                 THEN R(None, val.st)
                 ELSE IF sym._type \in {BOOL, TRISTATE}
                 THEN R(IF val.v # N
                        THEN config_prefix \o sym.name \o <<"=">> \o val.v
                        ELSE <<"#", " ">> \o config_prefix \o sym.name
                             \o <<" ", "i", "s", " ", "n", "o", "t", " ", "s", "e", "t">>,
                        val.st)
                 ELSE IF sym._type \in {INT, HEX}
                 THEN R(config_prefix \o sym.name \o <<"=">> \o val.v, val.st)
                 ELSE R(config_prefix \o sym.name \o <<"=", "\"">>
                        \o replace(replace(val.v, <<"\\">>, <<"\\", "\\">>),
                                   <<"\"">>, <<"\\", "\"">>)
                        \o <<"\"">>, val.st)

\* Config._get_config_strings: menu holds the menu nodes in the order the
\* walk over list/next/parent visits them.  The result is the list of lines.
RECURSIVE _get_config_strings_walk(_, _, _, _)
_get_config_strings_walk(menu, i, _already_written, acc) ==
    IF i > Len(menu) THEN acc
    ELSE LET node == menu[i]
         IN  IF node[1] = "Symbol"
             THEN IF node[2] \in _already_written
                  THEN _get_config_strings_walk(menu, i + 1, _already_written, acc)
                  ELSE LET s == Symbol_config_string(node[2], acc.st)
                       IN  _get_config_strings_walk(menu, i + 1,
                               _already_written \cup {node[2]},
                               R(IF s.v # None THEN Append(acc.v, s.v) ELSE acc.v,
                                 s.st))
             ELSE IF node[1] = "COMMENT"
             THEN LET dep == call("eval_expr", node[3], acc.st)
                  IN  _get_config_strings_walk(menu, i + 1, _already_written,
                          R(IF dep.v # N
                            THEN acc.v \o << <<>>, <<"#">>, <<"#", " ">> \o node[2], <<"#">> >>
                            ELSE acc.v, dep.st))
             ELSE _get_config_strings_walk(menu, i + 1, _already_written, acc)

_get_config_strings(st) ==
    _get_config_strings_walk(st.kconfig.menu, 1, {}, R(<<>>, st))

\* The default header of Config.write_config, without its newline
header ==
    <<"#", " ", "G", "e", "n", "e", "r", "a", "t", "e", "d", " ", "b", "y",
    " ", "K", "c", "o", "n", "f", "i", "g", "l", "i", "b", " ", "(", "h",
    "t", "t", "p", "s", ":", "/", "/", "g", "i", "t", "h", "u", "b", ".",
    "c", "o", "m", "/", "u", "l", "f", "a", "l", "i", "z", "e", "r", "/",
    "K", "c", "o", "n", "f", "i", "g", "l", "i", "b", ")">>

\* Config.write_config: the lines written, and the state after the call
write_config(st) ==
    LET strings == _get_config_strings(st)
    IN  R(<<header>> \o strings.v, strings.st)

\* self.top_menu.prompt[0]: the text of the mainmenu statement of
\* configuration k, or the text Config.__init__ gives the top menu
top_menu_prompt(k) ==
    IF k = 8 THEN <<"$", "S", "T", "R">>
    ELSE <<"L", "i", "n", "u", "x", " ", "K", "e", "r", "n", "e", "l", " ",
           "C", "o", "n", "f", "i", "g", "u", "r", "a", "t", "i", "o", "n">>

\* _sym_ref_re_search(s), _sym_ref_re being \$([A-Za-z0-9_]+): the first
\* match at or after position i, with the positions before it and after it;
\* the match object is None when the name is empty
RECURSIVE _sym_ref_re_search(_, _)
_sym_ref_re_search(s, i) ==
    IF i >= Len(s) THEN [start |-> 0, name |-> <<>>, end |-> 0]
    ELSE IF s[i] = "$" /\ WordLen(From(s, i)) > 0
    THEN [start |-> i - 1, name |-> SubSeq(s, i + 1, i + WordLen(From(s, i))),
          end |-> i + WordLen(From(s, i))]
    ELSE _sym_ref_re_search(s, i + 1)

\* Config._expand_sym_refs: r.v is s, r.st the state
RECURSIVE _expand_sym_refs(_)
_expand_sym_refs(r) ==
    LET sym_ref_match == _sym_ref_re_search(r.v, 1)
    IN  IF sym_ref_match.name = <<>>
        THEN r
        ELSE LET sym == KeyOf(r.st.kconfig, sym_ref_match.name)
                 value == IF sym # NoSym THEN call("Symbol.value", sym, r.st)
                                         ELSE R(<<>>, r.st)
             IN  _expand_sym_refs(
                     R(SubSeq(r.v, 1, sym_ref_match.start) \o value.v
                       \o From(r.v, sym_ref_match.end), value.st))

\* Config.mainmenu_text
mainmenu_text(st) == _expand_sym_refs(R(top_menu_prompt(st.cfg), st))

\* The properties and functions that the evaluators and the clients read
call(f, x, st) ==
    CASE f = "eval_expr" -> eval_expr(x, st)
      [] f = "Symbol.value" -> Symbol_value(x, st)
      [] f = "Symbol.visibility" -> Symbol_visibility(x, st)
      [] f = "Symbol.type" -> Symbol_type(x, st)
      [] f = "Choice.value" -> Choice_value(x, st)
      [] f = "Choice.visibility" -> Choice_visibility(x, st)
      [] f = "Choice.selection" -> Choice_selection(x, st)
      [] f = "Choice.type" -> Choice_type(x, st)
      [] f = "Symbol.assignable" -> Symbol_assignable(x, st)
      [] f = "Choice.assignable" -> Choice_assignable(x, st)
      [] f = "Config.write_config" -> write_config(st)

----------------------------------------------------------------------------
(* The state machine: the calls a client makes on one Config object *)

\* The state of the Config object and of its symbols and choices
St ==
    [cfg |-> cfg, kconfig |-> Kconfigs[cfg], user_value |-> user_value, cached_val |-> cached_val,
     cached_vis |-> cached_vis, cached_assignable |-> cached_assignable,
     write_to_conf |-> write_to_conf, ch_user_value |-> ch_user_value,
     ch_user_selection |-> ch_user_selection,
     ch_cached_selection |-> ch_cached_selection,
     ch_cached_vis |-> ch_cached_vis,
     ch_cached_assignable |-> ch_cached_assignable]

\* The call op took the object to state st
Step(st, op) ==
    /\ cfg' = st.cfg
    /\ user_value' = st.user_value
    /\ cached_val' = st.cached_val
    /\ cached_vis' = st.cached_vis
    /\ cached_assignable' = st.cached_assignable
    /\ write_to_conf' = st.write_to_conf
    /\ ch_user_value' = st.ch_user_value
    /\ ch_user_selection' = st.ch_user_selection
    /\ ch_cached_selection' = st.ch_cached_selection
    /\ ch_cached_vis' = st.ch_cached_vis
    /\ ch_cached_assignable' = st.ch_cached_assignable
    /\ last_op' = op
    /\ UNCHANGED <<_cached_deps, stack, next_line, kconfig_file>>

\* write_config took the object to state r.st and wrote the lines r.v
Step_write_config(r) == Step(r.st, <<"Config.write_config", r.v>>)

\* load_config took the object to state r.st and gave the warnings r.warnings
Step_load_config(r, replace_) ==
    Step(r.st, <<"Config.load_config", replace_, r.warnings>>)

\* Symbol.__init__ and Choice.__init__ for every symbol and choice of the tree
\* of one of the configurations ids; the lexer is given one of the lines, and
\* a second Config is made from one of the files
InitOf(ids, lines, files) ==
    /\ cfg \in ids
    /\ user_value = [s \in SymNames(Kconfigs[cfg]) |-> None]
    /\ cached_val = [s \in SymNames(Kconfigs[cfg]) |-> None]
    /\ cached_vis = [s \in SymNames(Kconfigs[cfg]) |-> None]
    /\ cached_assignable = [s \in SymNames(Kconfigs[cfg]) |-> None]
    /\ write_to_conf = [s \in SymNames(Kconfigs[cfg]) |-> FALSE]
    /\ ch_user_value = [c \in ChoiceIds(Kconfigs[cfg]) |-> None]
    /\ ch_user_selection = [c \in ChoiceIds(Kconfigs[cfg]) |-> NoSym]
    /\ ch_cached_selection = [c \in ChoiceIds(Kconfigs[cfg]) |-> _NO_CACHED_SELECTION]
    /\ ch_cached_vis = [c \in ChoiceIds(Kconfigs[cfg]) |-> None]
    /\ ch_cached_assignable = [c \in ChoiceIds(Kconfigs[cfg]) |-> None]
    /\ last_op = <<"call">>
    /\ _cached_deps = <<>>
    /\ stack = <<>>
    /\ next_line \in lines
    /\ kconfig_file \in files

Init == InitOf(CfgIds, {<<>>}, {<<>>})

InitValues == InitOf(ValueCfgIds, {<<>>}, {<<>>})

InitAssignable == InitOf(AssignableCfgIds, {<<>>}, {<<>>})

InitStrings == InitOf(StringCfgIds, {<<>>}, {<<>>})

InitChoice == InitOf(ChoiceCfgIds, {<<>>}, {<<>>})

InitDependent == InitOf(DependentCfgIds, {<<>>}, {<<>>})

DefinedSyms(kconfig) ==
    {kconfig.defined_syms[i] : i \in DOMAIN kconfig.defined_syms}

\* The values the client passes to Symbol.set_value, some of them invalid
\* for the type of the symbol
SetValues(k, name) ==
    CASE k = 1 ->
            CASE name = "EXPERT" -> {N, M, Y}
              [] name = "MODULES" -> {N, Y}
              [] name = "T" -> {M, <<"1">>}
              [] OTHER -> {}
      [] k = 2 ->
            CASE name \in {"A", "B", "D"} -> {M, Y}
              [] name = "S" -> {N, M, Y}
              [] OTHER -> {}
      [] k = 3 ->
            CASE name = "A" -> {M, Y}
              [] name = "X" -> {N, M, Y, <<"f", "o", "o">>}
              [] name = "Y" -> {N, M, Y}
              [] name = "MODULES" -> {Y}
              [] OTHER -> {}
      [] k = 4 ->
            CASE name = "F" -> {N}
              [] name = "N" -> {<<"1", "5">>, <<"7">>, <<"0", "x", "f">>}
              [] name = "I" -> {<<"0", "x", "1", "f">>, <<"g">>}
              [] name = "STR" -> {<<"\"">>}
              [] name = "UNAME_RELEASE" -> {<<"z">>}
              [] OTHER -> {}
      [] k = 6 ->
            CASE name = "EXPERT" -> {N}
              [] name = "T" -> {M, Y}
              [] name = "U" -> {M}
              [] OTHER -> {}
      [] k = 7 ->
            CASE name \in {"A", "B"} -> {M, Y}
              [] name = "S" -> {N, Y}
              [] OTHER -> {}
      [] k = 8 ->
            CASE name = "F" -> {N}
              [] name = "STR" -> {<<"\\">>, <<"\"">>, <<"\\", "\"">>,
                                  <<"a", "\"", "\\">>, <<"$", "F">>}
              [] OTHER -> {}
      [] k = 9 ->
            CASE name = "EXPERT" -> {N, Y}
              [] name = "D" -> {M, Y}
              [] name = "X" -> {M, Y}
              [] name = "Y" -> {M}
              [] OTHER -> {}
      [] k = 10 ->
            CASE name = "F" -> {N}
              [] name = "E" -> {<<"1", "2">>, <<"5">>}
              [] name = "Q" -> {<<"2", "5">>}
              [] OTHER -> {}
      [] k = 5 ->
            CASE name = "F" -> {N}
              [] name = "N" -> {<<"1", "5">>, <<"2", "5">>}
              [] name = "H" -> {<<"1", "f">>, <<"5">>}
              [] name = "P" -> {<<"1", "2">>, <<"9">>}
              [] OTHER -> {}

\* The symbols whose properties the client reads
ReadSyms(k) ==
    CASE k = 1 -> {"EXPERT", "MODULES", "T"}
      [] k = 2 -> {"S"}
      [] k = 3 -> {}
      [] k = 4 -> {}
      [] k = 5 -> {"H", "P"}
      [] k = 6 -> {"T", "U"}
      [] k = 7 -> {"S"}
      [] k = 8 -> {"F", "STR"}
      [] k = 9 -> {"X"}
      [] k = 10 -> {"Q", "R"}

\* The configurations whose client writes .config files
WriteCfgs == {4, 8}

\* The values the client passes to Choice.set_value, one of them invalid
ChoiceSetValues(k) ==
    IF k = 9 THEN {N, M, Y, <<"f", "o", "o">>} ELSE {N, M, Y}

\* The lines of the files the client loads, besides the files it wrote
FileLines(k) ==
    CASE k = 1 ->
            {<<"#", " ", "C", "O", "N", "F", "I", "G", "_", "E", "X", "P",
              "E", "R", "T", " ", "i", "s", " ", "n", "o", "t", " ", "s",
              "e", "t">>,
             <<"C", "O", "N", "F", "I", "G", "_", "T", "=", "m">>}
      [] k = 2 ->
            {<<"C", "O", "N", "F", "I", "G", "_", "A", "=", "y">>,
             <<"C", "O", "N", "F", "I", "G", "_", "S", "=", "m">>}
      [] k = 3 ->
            {<<"C", "O", "N", "F", "I", "G", "_", "X", "=", "y">>,
             <<"C", "O", "N", "F", "I", "G", "_", "Y", "=", "m">>}
      [] k = 4 ->
            {<<"C", "O", "N", "F", "I", "G", "_", "S", "T", "R", "=", "\"",
              "b", "\"">>,
             <<"C", "O", "N", "F", "I", "G", "_", "N", "=", "1", "5">>}
      [] k = 8 ->
            {<<"C", "O", "N", "F", "I", "G", "_", "S", "T", "R", "=", "\"",
              "b", "\"">>,
             <<"C", "O", "N", "F", "I", "G", "_", "S", "T", "R", "=", "\"",
              "b">>,
             <<"C", "O", "N", "F", "I", "G", "_", "S", "T", "R", "=", "b",
              "\"">>,
             <<"C", "O", "N", "F", "I", "G", "_", "S", "T", "R", "=", "b">>}

\* The longest file the client loads, in lines
MaxLines == 2

Files(k) == UNION {[1..n -> FileLines(k)] : n \in 0..MaxLines}

\* set_value took the object to state st and printed the warnings w
Step_set_value(st, w) ==
    Step(st, IF w = <<>> THEN <<"call">> ELSE <<"Symbol.set_value", w>>)

Call_Symbol_set_value ==
    \E name \in SymNames(Kconfigs[cfg]) : \E value \in SetValues(cfg, name) :
        Step_set_value(Symbol_set_value(name, value, St),
                       _set_value_warnings(name, value, FALSE, St))

Call_Symbol_unset_value ==
    \E name \in DefinedSyms(Kconfigs[cfg]) :
        Step(Symbol_unset_value(name, St), <<"call">>)

Call_Choice_set_value ==
    \E c \in ChoiceIds(Kconfigs[cfg]) : \E value \in ChoiceSetValues(cfg) :
        Step(Choice_set_value(c, value, St), <<"call">>)

Call_Choice_unset_value ==
    \E c \in ChoiceIds(Kconfigs[cfg]) :
        Step(Choice_unset_value(c, St), <<"call">>)

Call_unset_values ==
    Step(unset_values(St), <<"call">>)

\* Config.load_config on a file of the client
Call_load_config ==
    \E f \in Files(cfg) : \E replace_ \in BOOLEAN :
        Step(load_config(f, replace_, St).st, <<"call">>)

\* Config.load_config on the file the preceding call, a write_config, wrote
Call_load_config_written ==
    /\ last_op[1] = "Config.write_config"
    /\ \E replace_ \in BOOLEAN :
        Step_load_config(load_config(last_op[2], replace_, St), replace_)

Call_write_config ==
    /\ cfg \in WriteCfgs
    /\ Step_write_config(call("Config.write_config", None, St))

Read_Symbol_value ==
    \E name \in ReadSyms(cfg) : Step(call("Symbol.value", name, St).st, <<"call">>)

Read_Symbol_visibility ==
    \E name \in ReadSyms(cfg) : Step(call("Symbol.visibility", name, St).st, <<"call">>)

Read_Symbol_assignable ==
    \E name \in ReadSyms(cfg) : Step(call("Symbol.assignable", name, St).st, <<"call">>)

Read_mainmenu_text ==
    LET r == mainmenu_text(St)
    IN  Step(r.st, <<"Config.mainmenu_text", r.v>>)

Read_Choice_value ==
    \E c \in ChoiceIds(Kconfigs[cfg]) : Step(call("Choice.value", c, St).st, <<"call">>)

Read_Choice_selection ==
    \E c \in ChoiceIds(Kconfigs[cfg]) : Step(call("Choice.selection", c, St).st, <<"call">>)

Read_Choice_visibility ==
    \E c \in ChoiceIds(Kconfigs[cfg]) : Step(call("Choice.visibility", c, St).st, <<"call">>)

Read_Choice_assignable ==
    \E c \in ChoiceIds(Kconfigs[cfg]) : Step(call("Choice.assignable", c, St).st, <<"call">>)

Next ==
    \/ Call_Symbol_set_value
    \/ Call_Symbol_unset_value
    \/ Call_Choice_set_value
    \/ Call_Choice_unset_value
    \/ Call_unset_values
    \/ Call_load_config
    \/ Call_load_config_written
    \/ Call_write_config
    \/ Read_Symbol_value
    \/ Read_Symbol_visibility
    \/ Read_Symbol_assignable
    \/ Read_Choice_value
    \/ Read_Choice_selection
    \/ Read_Choice_visibility
    \/ Read_Choice_assignable

Spec == Init /\ [][Next]_vars

\* The calls of a client that assigns and reads values
NextValues ==
    \/ Call_Symbol_set_value
    \/ Call_Symbol_unset_value
    \/ Call_unset_values
    \/ Read_Symbol_value

SpecValues == InitValues /\ [][NextValues]_vars

\* The calls of a client that asks what can be assigned
NextAssignable ==
    \/ Call_Symbol_set_value
    \/ Call_Symbol_unset_value
    \/ Read_Symbol_visibility
    \/ Read_Symbol_assignable

SpecAssignable == InitAssignable /\ [][NextAssignable]_vars

\* The calls of a client that writes and loads strings
NextStrings ==
    \/ Call_Symbol_set_value
    \/ Call_load_config
    \/ Call_load_config_written
    \/ Call_write_config
    \/ Read_Symbol_value
    \/ Read_mainmenu_text

SpecStrings == InitStrings /\ [][NextStrings]_vars

\* The calls of a client that sets the mode of a choice and selects members
NextChoice ==
    \/ Call_Symbol_set_value
    \/ Call_Choice_set_value
    \/ Read_Symbol_visibility
    \/ Read_Choice_selection

SpecChoice == InitChoice /\ [][NextChoice]_vars

\* The depth of recursion at which the interpreter raises RecursionError
MaxDepth == 4

\* The elements of a set in the order a loop visits them
RECURSIVE SetToSeq(_)
SetToSeq(set) ==
    IF set = {} THEN <<>>
    ELSE LET x == CHOOSE x \in set : TRUE
         IN  <<x>> \o SetToSeq(set \ {x})

\* Symbol._get_dependent entered for symbol name: todo are the symbols whose
\* _get_dependent it calls, first its direct dependents, then those of each
\* sibling in its choice; res is what the result has without those calls
get_dependent_frame(kconfig, name) ==
    LET sym == kconfig.syms[name]
        syms == IF sym.choice = NoSym THEN <<>>
                ELSE kconfig.choices[sym.choice].syms
        siblings == SelectSeq(syms, LAMBDA s : s # name)
        RECURSIVE calls(_)
        calls(i) ==
            IF i > Len(siblings) THEN <<>>
            ELSE SetToSeq(_direct_dependents(kconfig, siblings[i])) \o calls(i + 1)
    IN  [name |-> name,
         todo |-> SetToSeq(_direct_dependents(kconfig, name)) \o calls(1),
         res |-> {Sym(d) : d \in _direct_dependents(kconfig, name)}
                 \cup (IF sym.choice # NoSym THEN {<<"Choice", sym.choice>>} ELSE {})
                 \cup {Sym(siblings[i]) : i \in DOMAIN siblings}
                 \cup UNION {{Sym(d) : d \in _direct_dependents(kconfig, siblings[i])} :
                                i \in DOMAIN siblings}]

\* A step of the interpreter in Symbol._get_dependent: the Config object
\* itself is left as it is
Step_get_dependent(op, deps, frames) ==
    /\ last_op' = op
    /\ _cached_deps' = deps
    /\ stack' = frames
    /\ UNCHANGED <<cfg, user_value, cached_val, cached_vis, cached_assignable,
                   write_to_conf, ch_user_value, ch_user_selection,
                   ch_cached_selection, ch_cached_vis, ch_cached_assignable,
                   next_line, kconfig_file>>

\* The client calls Symbol._get_dependent: the cached tuple is returned, or
\* the computation starts
Call_get_dependent ==
    /\ stack = <<>>
    /\ \E name \in DefinedSyms(Kconfigs[cfg]) :
          IF name \in DOMAIN _cached_deps
          THEN Step_get_dependent(<<"Symbol._get_dependent", _cached_deps[name]>>,
                                  _cached_deps, stack)
          ELSE Step_get_dependent(<<"call">>, _cached_deps,
                                  <<get_dependent_frame(Kconfigs[cfg], name)>>)

\* dep._get_dependent() for the next dependent of the running call: its
\* cached tuple is added to the result, or its computation is entered
get_dependent_call ==
    /\ stack # <<>>
    /\ stack[Len(stack)].todo # <<>>
    /\ LET top == stack[Len(stack)]
           dep == Head(top.todo)
       IN  IF dep \in DOMAIN _cached_deps
           THEN Step_get_dependent(<<"call">>, _cached_deps,
                    [stack EXCEPT ![Len(stack)] =
                        [top EXCEPT !.todo = Tail(@),
                                    !.res = @ \cup {_cached_deps[dep][i] :
                                                      i \in DOMAIN _cached_deps[dep]}]])
           ELSE /\ Len(stack) < MaxDepth
                /\ Step_get_dependent(<<"call">>, _cached_deps,
                        Append(stack, get_dependent_frame(Kconfigs[cfg], dep)))

\* The running call has made its calls: self._cached_deps = tuple(res), and
\* the tuple is returned to the caller
get_dependent_return ==
    /\ stack # <<>>
    /\ stack[Len(stack)].todo = <<>>
    /\ LET top == stack[Len(stack)]
           result == SetToSeq(top.res)
       IN  Step_get_dependent(
               IF Len(stack) = 1 THEN <<"Symbol._get_dependent", result>>
                                 ELSE <<"call">>,
               _cached_deps @@ (top.name :> result),
               SubSeq(stack, 1, Len(stack) - 1))

\* The next call would exceed the depth the interpreter allows: it raises
\* RecursionError, which no frame catches, and no _cached_deps is assigned
get_dependent_RecursionError ==
    /\ Len(stack) = MaxDepth
    /\ stack[Len(stack)].todo # <<>>
    /\ Head(stack[Len(stack)].todo) \notin DOMAIN _cached_deps
    /\ Step_get_dependent(<<"RecursionError">>, _cached_deps, <<>>)

\* The calls of a client that asks for the dependent symbols
NextDependent ==
    \/ Call_get_dependent
    \/ get_dependent_call
    \/ get_dependent_return
    \/ get_dependent_RecursionError

SpecDependent == InitDependent /\ [][NextDependent]_vars

----------------------------------------------------------------------------
(* The lexer *)

\* Keyword to token map; "None" for a name that is no keyword
_get_keyword(name) ==
    CASE name = <<"a", "l", "l", "n", "o", "c", "o", "n", "f", "i", "g", "_", "y">> -> "_T_ALLNOCONFIG_Y"
      [] name = <<"b", "o", "o", "l">> -> "_T_BOOL"
      [] name = <<"b", "o", "o", "l", "e", "a", "n">> -> "_T_BOOL"
      [] name = <<"c", "h", "o", "i", "c", "e">> -> "_T_CHOICE"
      [] name = <<"c", "o", "m", "m", "e", "n", "t">> -> "_T_COMMENT"
      [] name = <<"c", "o", "n", "f", "i", "g">> -> "_T_CONFIG"
      [] name = <<"d", "e", "f", "_", "b", "o", "o", "l">> -> "_T_DEF_BOOL"
      [] name = <<"d", "e", "f", "_", "t", "r", "i", "s", "t", "a", "t", "e">> -> "_T_DEF_TRISTATE"
      [] name = <<"d", "e", "f", "a", "u", "l", "t">> -> "_T_DEFAULT"
      [] name = <<"d", "e", "f", "c", "o", "n", "f", "i", "g", "_", "l", "i", "s", "t">> -> "_T_DEFCONFIG_LIST"
      [] name = <<"d", "e", "p", "e", "n", "d", "s">> -> "_T_DEPENDS"
      [] name = <<"e", "n", "d", "c", "h", "o", "i", "c", "e">> -> "_T_ENDCHOICE"
      [] name = <<"e", "n", "d", "i", "f">> -> "_T_ENDIF"
      [] name = <<"e", "n", "d", "m", "e", "n", "u">> -> "_T_ENDMENU"
      [] name = <<"e", "n", "v">> -> "_T_ENV"
      [] name = <<"h", "e", "l", "p">> -> "_T_HELP"
      [] name = <<"h", "e", "x">> -> "_T_HEX"
      [] name = <<"i", "f">> -> "_T_IF"
      [] name = <<"i", "m", "p", "l", "y">> -> "_T_IMPLY"
      [] name = <<"i", "n", "t">> -> "_T_INT"
      [] name = <<"m", "a", "i", "n", "m", "e", "n", "u">> -> "_T_MAINMENU"
      [] name = <<"m", "e", "n", "u">> -> "_T_MENU"
      [] name = <<"m", "e", "n", "u", "c", "o", "n", "f", "i", "g">> -> "_T_MENUCONFIG"
      [] name = <<"m", "o", "d", "u", "l", "e", "s">> -> "_T_MODULES"
      [] name = <<"o", "n">> -> "_T_ON"
      [] name = <<"o", "p", "t", "i", "o", "n">> -> "_T_OPTION"
      [] name = <<"o", "p", "t", "i", "o", "n", "a", "l">> -> "_T_OPTIONAL"
      [] name = <<"p", "r", "o", "m", "p", "t">> -> "_T_PROMPT"
      [] name = <<"r", "a", "n", "g", "e">> -> "_T_RANGE"
      [] name = <<"s", "e", "l", "e", "c", "t">> -> "_T_SELECT"
      [] name = <<"s", "o", "u", "r", "c", "e">> -> "_T_SOURCE"
      [] name = <<"s", "t", "r", "i", "n", "g">> -> "_T_STRING"
      [] name = <<"t", "r", "i", "s", "t", "a", "t", "e">> -> "_T_TRISTATE"
      [] name = <<"v", "i", "s", "i", "b", "l", "e">> -> "_T_VISIBLE"
      [] OTHER -> "None"

\* Tokens after which identifier-like lexemes are treated as strings
_STRING_LEX ==
    {"_T_BOOL", "_T_CHOICE", "_T_COMMENT", "_T_HEX", "_T_INT", "_T_MAINMENU", "_T_MENU", "_T_PROMPT", "_T_SOURCE", "_T_STRING", "_T_TRISTATE"}

\* The tokens of a _Feed: a keyword or operator token _T_..., a Symbol (by
\* its name) and a str (the text between the quotes, a constant symbol n, m,
\* y, or an identifier with its quotes missing)
Token(kind, v) == [kind |-> kind, v |-> v]

\* The length of the longest prefix of s made of characters of the set
RECURSIVE SpanLen(_, _)
SpanLen(s, set) ==
    IF Len(s) > 0 /\ s[1] \in set THEN 1 + SpanLen(Tail(s), set) ELSE 0

\* _initial_token_re_match(s), the regex being [^\w#]*(\w+)\s*: group(1) and
\* end(); group(1) is empty when there is no match
_initial_token_re_match(s) ==
    LET start == SpanLen(s, {s[j] : j \in DOMAIN s} \ (WordChars \cup {"#"}))
        n == WordLen(From(s, start))
    IN  [group |-> SubSeq(s, start + 1, start + n),
         end |-> start + n + SpanLen(From(s, start + n), {" ", "\t", "\n", "\r"})]

\* _id_keyword_re_match(s, i), the regex being ([\w./-]+)\s*
_id_keyword_re_match(s, i) ==
    LET n == SpanLen(From(s, i), WordChars \cup {".", "/", "-"})
    IN  [group |-> SubSeq(s, i + 1, i + n),
         end |-> i + n + SpanLen(From(s, i + n), {" ", "\t", "\n", "\r"})]

\* s.find(c, i): the index of the first c at or after index i, -1 if none
RECURSIVE find(_, _, _)
find(s, c, i) ==
    IF i >= Len(s) THEN -1
    ELSE IF s[i + 1] = c THEN i
    ELSE find(s, c, i + 1)

\* The slow path of a string literal in _tokenize, from index i on: the
\* value read and the index after the closing quote, or the error
RECURSIVE string_slow_path(_, _, _, _)
string_slow_path(s, i, quote, val) ==
    IF i >= Len(s) THEN [error |-> TRUE, token |-> <<>>, i |-> i]
    ELSE IF s[i + 1] = quote THEN [error |-> FALSE, token |-> val, i |-> i + 1]
    ELSE IF s[i + 1] = "\\"
    THEN IF i + 1 >= Len(s) THEN [error |-> TRUE, token |-> <<>>, i |-> i]
         ELSE string_slow_path(s, i + 2, quote, Append(val, s[i + 2]))
    ELSE string_slow_path(s, i + 1, quote, Append(val, s[i + 1]))

\* string_literal with the opening quote kept in the token
string_literal_keeps_quote(s, i, c) ==
    LET lit == string_slow_path(s, i, c, <<>>)
    IN  [lit EXCEPT !.token = <<c>> \o @]

\* The string literal of _tokenize whose opening quote c is just before
\* index i
string_literal(s, i, c) ==
    IF "\\" \notin {s[j] : j \in DOMAIN s}
    THEN LET end == find(s, c, i)
         IN  IF end = -1 THEN [error |-> TRUE, token |-> <<>>, i |-> i]
             ELSE [error |-> FALSE, token |-> SubSeq(s, i + 1, end), i |-> end + 1]
    ELSE string_slow_path(s, i, c, <<>>)

\* The branch of the main loop of _tokenize for a character c = s[i - 1]
\* that starts no identifier: the token and the index after it, or what the
\* loop does instead
not_id_keyword(s, i, c) ==
    LET Op(t, j) == [do |-> "append", token |-> Token("keyword", <<t>>), i |-> j]
        Continue == [do |-> "continue", token |-> Token("keyword", <<>>), i |-> i]
        next == IF i < Len(s) THEN s[i + 1] ELSE ""
    IN  CASE c \in {"\"", "'"} ->
                LET lit == string_literal(s, i, c)
                IN  IF lit.error
                    THEN [do |-> "error", token |-> Token("keyword", <<>>), i |-> i]
                    ELSE [do |-> "append", token |-> Token("str", lit.token),
                          i |-> lit.i]
          [] c = "&" -> IF next # "&" THEN Continue ELSE Op("_T_AND", i + 1)
          [] c = "|" -> IF next # "|" THEN Continue ELSE Op("_T_OR", i + 1)
          [] c = "!" -> IF next = "=" THEN Op("_T_UNEQUAL", i + 1)
                                      ELSE Op("_T_NOT", i)
          [] c = "=" -> Op("_T_EQUAL", i)
          [] c = "(" -> Op("_T_OPEN_PAREN", i)
          [] c = ")" -> Op("_T_CLOSE_PAREN", i)
          [] c = "#" -> [do |-> "break", token |-> Token("keyword", <<>>), i |-> i]
          [] c = "<" -> IF next = "=" THEN Op("_T_LESS_EQUAL", i + 1)
                                      ELSE Op("_T_LESS", i)
          [] c = ">" -> IF next = "=" THEN Op("_T_GREATER_EQUAL", i + 1)
                                      ELSE Op("_T_GREATER", i)
          [] OTHER -> Continue

\* The main tokenization loop of _tokenize, for the tokens past the first
\* one: token is the previous token, tokens the list so far
RECURSIVE tokenize_loop(_, _, _, _)
tokenize_loop(s, i, token, tokens) ==
    IF i >= Len(s) THEN [status |-> "_Feed", tokens |-> tokens]
    ELSE LET id_keyword_match == _id_keyword_re_match(s, i)
             name == id_keyword_match.group
         IN  IF name # <<>>
             THEN LET keyword == _get_keyword(name)
                      t == IF keyword # "None" THEN Token("keyword", <<keyword>>)
                           ELSE IF ~(token.kind = "keyword"
                                     /\ token.v[1] \in _STRING_LEX)
                           THEN IF name \in {N, M, Y} THEN Token("str", name)
                                ELSE Token("Symbol", name)
                           ELSE Token("str", name)
                  IN  tokenize_loop(s, id_keyword_match.end, t, Append(tokens, t))
             ELSE LET b == not_id_keyword(s, i + 1, s[i + 1])
                  IN  CASE b.do = "error" -> [status |-> "error", tokens |-> <<>>]
                        [] b.do = "break" -> [status |-> "_Feed", tokens |-> tokens]
                        [] b.do = "continue" -> tokenize_loop(s, b.i, token, tokens)
                        [] OTHER ->
                            tokenize_loop(
                                s, b.i + SpanLen(From(s, b.i), {" ", "\t", "\n", "\r"}),
                                b.token, Append(tokens, b.token))

\* Config._tokenize(s, for_eval = False): the _Feed of the tokens of the
\* line, None for a line with no initial token, or the syntax error raised
_tokenize(s) ==
    LET initial_token_match == _initial_token_re_match(s)
        keyword == _get_keyword(initial_token_match.group)
    IN  IF initial_token_match.group = <<>>
        THEN [status |-> "None", tokens |-> <<>>]
        ELSE IF keyword = "_T_HELP"
        THEN [status |-> "_Feed", tokens |-> <<Token("keyword", <<"_T_HELP">>)>>]
        ELSE IF keyword = "None"
        THEN [status |-> "error", tokens |-> <<>>]
        ELSE tokenize_loop(s, initial_token_match.end,
                           Token("keyword", <<keyword>>),
                           <<Token("keyword", <<keyword>>)>>)

\* The pieces the lines given to the lexer are made of, and how many of
\* them a line has at most
Fragments ==
    {<<"i", "f">>, <<"i", "n", "t">>, <<"A">>, <<" ">>, <<"\"">>, <<"\\">>,
     <<"#">>, <<"!">>, <<"=">>, <<"&">>, <<"n">>, <<"'">>}

MaxChunks == 4

RECURSIVE Concat(_)
Concat(seqs) == IF seqs = <<>> THEN <<>> ELSE Head(seqs) \o Concat(Tail(seqs))

Lines == {Concat(f) : f \in UNION {[1..n -> Fragments] : n \in 0..MaxChunks}}

InitLex == InitOf(StringCfgIds, Lines, {<<>>})

\* The parser reads the line: Config._tokenize(next_line, for_eval = False)
Call_tokenize ==
    /\ last_op = <<"call">>
    /\ last_op' = <<"Config._tokenize", _tokenize(next_line)>>
    /\ UNCHANGED <<cfg, user_value, cached_val, cached_vis, cached_assignable,
                   write_to_conf, ch_user_value, ch_user_selection,
                   ch_cached_selection, ch_cached_vis, ch_cached_assignable,
                   _cached_deps, stack, next_line, kconfig_file>>

NextLex == Call_tokenize

SpecLex == InitLex /\ [][NextLex]_vars

----------------------------------------------------------------------------
(* The menu tree: parsing and finalization *)

\* The None of a list, next or parent pointer; the menu nodes are numbered by
\* the line of their statement, the top menu by the number after the last
NoNode == 0

\* The statements of the Kconfig files given to Config.__init__, one line
\* each: a symbol with a prompt, the same symbol with none, a symbol that
\* depends on the first, and the statements that open and close a block
Statements ==
    {[kw |-> "config", name |-> "A", prompt |-> TRUE, depends |-> {}],
     [kw |-> "config", name |-> "A", prompt |-> FALSE, depends |-> {}],
     [kw |-> "config", name |-> "B", prompt |-> TRUE, depends |-> {"A"}],
     [kw |-> "if", name |-> "", prompt |-> FALSE, depends |-> {"A"}],
     [kw |-> "endif", name |-> "", prompt |-> FALSE, depends |-> {}],
     [kw |-> "choice", name |-> "", prompt |-> TRUE, depends |-> {}],
     [kw |-> "endchoice", name |-> "", prompt |-> FALSE, depends |-> {}],
     [kw |-> "menu", name |-> "", prompt |-> TRUE, depends |-> {}],
     [kw |-> "endmenu", name |-> "", prompt |-> FALSE, depends |-> {}]}

\* What MenuNode.item is for the node of a statement
ItemOf(t) ==
    CASE t.kw = "config" -> [kind |-> "Symbol", name |-> t.name]
      [] t.kw = "choice" -> [kind |-> "Choice", name |-> ""]
      [] t.kw = "menu" -> [kind |-> "MENU", name |-> ""]
      [] OTHER -> [kind |-> "None", name |-> ""]

\* MenuNode(), with the fields the parser assigns: an expression is the set
\* of the symbols it is the conjunction of, and a prompt its condition
MenuNode(item, prompt, dep, parent) ==
    [item |-> item, prompt |-> prompt, dep |-> dep, parent |-> parent,
     list |-> NoNode, next |-> NoNode]

\* Config._parse_block from line pos on: the nodes with those of the block
\* added, the final node of the block, and the line after the block
RECURSIVE _parse_block(_, _, _, _, _, _)
_parse_block(lines, pos, end_marker, parent, prev_node, nodes) ==
    IF pos > Len(lines)
    THEN [error |-> end_marker # "None", pos |-> pos, prev_node |-> prev_node,
          nodes |-> [nodes EXCEPT ![prev_node].next = NoNode]]
    ELSE LET t == lines[pos]
             dep == t.depends \cup nodes[parent].dep
             node == MenuNode(ItemOf(t),
                              [text |-> t.prompt, cond |-> dep], dep, parent)
         IN  CASE t.kw = "config" ->
                    _parse_block(lines, pos + 1, end_marker, parent, pos,
                                 [nodes EXCEPT ![prev_node].next = pos]
                                     @@ (pos :> node))
               [] t.kw = end_marker ->
                    [error |-> FALSE, pos |-> pos + 1, prev_node |-> prev_node,
                     nodes |-> [nodes EXCEPT ![prev_node].next = NoNode]]
               [] t.kw \in {"if", "menu", "choice"} ->
                    LET block == _parse_block(
                                     lines, pos + 1,
                                     CASE t.kw = "if" -> "endif"
                                       [] t.kw = "menu" -> "endmenu"
                                       [] t.kw = "choice" -> "endchoice",
                                     pos, pos, nodes @@ (pos :> node))
                    IN  IF block.error THEN block
                        ELSE _parse_block(
                                 lines, block.pos, end_marker, parent, pos,
                                 [block.nodes EXCEPT
                                     ![pos].list = block.nodes[pos].next,
                                     ![prev_node].next = pos])
               [] OTHER ->
                    [error |-> TRUE, pos |-> pos, prev_node |-> prev_node,
                     nodes |-> nodes]

\* _has_auto_menu_dep(node1, node2), _expr_depends_on being membership in
\* the conjunction
_has_auto_menu_dep(nodes, node1, node2) ==
    /\ nodes[node1].item.kind = "Symbol"
    /\ nodes[node1].item.name \in
          (IF nodes[node2].prompt.text THEN nodes[node2].prompt.cond
                                       ELSE nodes[node2].dep)

\* The loop of _flatten that gives the children the parent of their parent:
\* the nodes, and the last child
RECURSIVE flatten_children(_, _, _)
flatten_children(nodes, last_node, parent) ==
    IF nodes[last_node].next = NoNode
    THEN [nodes |-> [nodes EXCEPT ![last_node].parent = parent],
          last_node |-> last_node]
    ELSE flatten_children([nodes EXCEPT ![last_node].parent = parent],
                          nodes[last_node].next, parent)

\* _flatten with the children left with the parent they had
RECURSIVE _flatten_keeps_parent(_, _)
_flatten_keeps_parent(nodes, node) ==
    IF node = NoNode THEN nodes
    ELSE IF nodes[node].list # NoNode /\ ~nodes[node].prompt.text
    THEN LET r == flatten_children(nodes, nodes[node].list, nodes[node].parent)
             flat == [nodes EXCEPT ![r.last_node].next = nodes[node].next,
                                   ![node].next = nodes[node].list,
                                   ![node].list = NoNode]
         IN  _flatten_keeps_parent(flat, flat[node].next)
    ELSE _flatten_keeps_parent(nodes, nodes[node].next)

\* _flatten(node)
RECURSIVE _flatten(_, _)
_flatten(nodes, node) ==
    IF node = NoNode THEN nodes
    ELSE IF nodes[node].list # NoNode /\ ~nodes[node].prompt.text
    THEN LET r == flatten_children(nodes, nodes[node].list, nodes[node].parent)
             flat == [r.nodes EXCEPT ![r.last_node].next = nodes[node].next,
                                     ![node].next = nodes[node].list,
                                     ![node].list = NoNode]
         IN  _flatten(flat, flat[node].next)
    ELSE _flatten(nodes, nodes[node].next)

\* The first loop of _remove_if: the first node from first on whose item is
\* not None
RECURSIVE remove_if_first(_, _)
remove_if_first(nodes, first) ==
    IF first # NoNode /\ nodes[first].item.kind = "None"
    THEN remove_if_first(nodes, nodes[first].next)
    ELSE first

\* The second loop of _remove_if
RECURSIVE remove_if_rest(_, _)
remove_if_rest(nodes, cur) ==
    IF cur = NoNode THEN nodes
    ELSE IF nodes[cur].next # NoNode /\ nodes[nodes[cur].next].item.kind = "None"
    THEN remove_if_rest([nodes EXCEPT ![cur].next = nodes[nodes[cur].next].next],
                        nodes[nodes[cur].next].next)
    ELSE remove_if_rest(nodes, nodes[cur].next)

\* _remove_if(node)
_remove_if(nodes, node) ==
    [remove_if_rest(nodes, remove_if_first(nodes, nodes[node].list))
        EXCEPT ![node].list = remove_if_first(nodes, nodes[node].list)]

\* The loop of _finalize_choice over the children of the choice: the tree
\* with Symbol.choice and Choice.syms of the symbols among them set
RECURSIVE _finalize_choice(_, _, _)
_finalize_choice(tree, node, cur) ==
    IF cur = NoNode THEN tree
    ELSE IF tree.nodes[cur].item.kind = "Symbol"
    THEN _finalize_choice(
             [tree EXCEPT !.choice[tree.nodes[cur].item.name] = node,
                          !.syms[node] = Append(@, tree.nodes[cur].item.name)],
             node, tree.nodes[cur].next)
    ELSE _finalize_choice(tree, node, tree.nodes[cur].next)

RECURSIVE _finalize_tree(_, _)

\* The loop of _finalize_tree over the children of a node, from cur on
RECURSIVE finalize_children(_, _)
finalize_children(tree, cur) ==
    IF cur = NoNode THEN tree
    ELSE LET finalized == _finalize_tree(tree, cur)
         IN  finalize_children(finalized, finalized.nodes[cur].next)

\* The loop of _check_auto_menu: the tree, and the last of the nodes after
\* node that depend on it
RECURSIVE check_auto_menu_loop(_, _, _)
check_auto_menu_loop(tree, node, cur) ==
    LET next == tree.nodes[cur].next
    IN  IF next # NoNode /\ _has_auto_menu_dep(tree.nodes, node, next)
        THEN check_auto_menu_loop(
                 [_finalize_tree(tree, next) EXCEPT !.nodes[next].parent = node],
                 node, next)
        ELSE [tree |-> tree, cur |-> cur]

\* _check_auto_menu(node)
_check_auto_menu(tree, node) ==
    LET r == check_auto_menu_loop(tree, node, node)
        nodes == r.tree.nodes
    IN  IF r.cur # node
        THEN [r.tree EXCEPT !.nodes = [nodes EXCEPT ![node].list = nodes[node].next,
                                                    ![node].next = nodes[r.cur].next,
                                                    ![r.cur].next = NoNode]]
        ELSE r.tree

\* _finalize_tree(node)
_finalize_tree(tree, node) ==
    LET children == IF tree.nodes[node].list # NoNode
                    THEN finalize_children(tree, tree.nodes[node].list)
                    ELSE IF tree.nodes[node].item.kind # "None"
                    THEN _check_auto_menu(tree, node)
                    ELSE tree
        finalized == IF children.nodes[node].list # NoNode
                     THEN [children EXCEPT !.nodes =
                              _remove_if(_flatten(@, @[node].list), node)]
                     ELSE children
    IN  IF finalized.nodes[node].item.kind = "Choice"
        THEN _finalize_choice(finalized, node, finalized.nodes[node].list)
        ELSE finalized

\* Config.__init__ for the Kconfig file with these lines: the menu tree under
\* top_menu with Choice.syms (by the node of the choice) and Symbol.choice,
\* or the syntax error raised
Config__init__(lines) ==
    LET top_menu == Len(lines) + 1
        block == _parse_block(
                     lines, 1, "None", top_menu, top_menu,
                     top_menu :> MenuNode([kind |-> "MENU", name |-> ""],
                                          [text |-> TRUE, cond |-> {}], {}, NoNode))
        parsed == [block.nodes EXCEPT ![top_menu].list = block.nodes[top_menu].next,
                                      ![top_menu].next = NoNode]
        choices == {n \in DOMAIN parsed : parsed[n].item.kind = "Choice"}
        syms == {parsed[n].item.name :
                    n \in {m \in DOMAIN parsed : parsed[m].item.kind = "Symbol"}}
    IN  IF block.error
        THEN [error |-> TRUE, top_menu |-> top_menu, nodes |-> <<>>,
              syms |-> <<>>, choice |-> <<>>]
        ELSE [error |-> FALSE, top_menu |-> top_menu]
             @@ _finalize_tree([nodes |-> parsed,
                                syms |-> [c \in choices |-> <<>>],
                                choice |-> [s \in syms |-> NoNode]], top_menu)

\* How many lines the Kconfig files have at most
MaxStatements == 5

KconfigFilesUpTo ==
    UNION {[1..n -> Statements] : n \in 0..MaxStatements}

InitTree == InitOf(StringCfgIds, {<<>>}, KconfigFilesUpTo)

\* The client constructs a Config from the file
Call_Config ==
    /\ last_op = <<"call">>
    /\ last_op' = <<"Config", Config__init__(kconfig_file)>>
    /\ UNCHANGED <<cfg, user_value, cached_val, cached_vis, cached_assignable,
                   write_to_conf, ch_user_value, ch_user_selection,
                   ch_cached_selection, ch_cached_vis, ch_cached_assignable,
                   _cached_deps, stack, next_line, kconfig_file>>

NextTree == Call_Config

SpecTree == InitTree /\ [][NextTree]_vars

----------------------------------------------------------------------------
(* Properties *)

\* st with every cached result discarded: a read in Fresh(st) is a
\* computation from the user values alone
Fresh(st) ==
    [st EXCEPT
        !.cached_val = [s \in DOMAIN @ |-> None],
        !.cached_vis = [s \in DOMAIN @ |-> None],
        !.cached_assignable = [s \in DOMAIN @ |-> None],
        !.ch_cached_selection = [c \in DOMAIN @ |-> _NO_CACHED_SELECTION],
        !.ch_cached_vis = [c \in DOMAIN @ |-> None],
        !.ch_cached_assignable = [c \in DOMAIN @ |-> None]]

\* What the cached properties of a symbol and of a choice read in state st
SymbolReads(s, st) ==
    <<Symbol_value(s, st).v, Symbol_visibility(s, st).v,
      Symbol_assignable(s, st).v>>

ChoiceReads(c, st) ==
    <<Choice_selection(c, st).v, Choice_visibility(c, st).v,
      Choice_assignable(c, st).v>>

\* The value, visibility, assignable set or selection of a symbol or choice,
\* computed from the user values of st
ItemValues(item, st) ==
    IF item[1] = "Choice"
    THEN <<Choice_value(item[2], Fresh(st)).v>>
         \o ChoiceReads(item[2], Fresh(st))
    ELSE SymbolReads(item[2], Fresh(st))

\* The defined symbols and the choices of the configuration
Items ==
    {Sym(s) : s \in DefinedSyms(Kconfigs[cfg])}
    \cup {<<"Choice", c>> : c \in ChoiceIds(Kconfigs[cfg])}

\* C1: cache coherence.  In every state the calls lead to, a read of
\* Symbol.value, Symbol.visibility, Symbol.assignable, Choice.selection,
\* Choice.visibility or Choice.assignable returns what a computation starting
\* from empty caches returns for the current user values.
C1_CacheCoherence ==
    /\ \A s \in DefinedSyms(Kconfigs[cfg]) :
          SymbolReads(s, St) = SymbolReads(s, Fresh(St))
    /\ \A c \in ChoiceIds(Kconfigs[cfg]) :
          ChoiceReads(c, St) = ChoiceReads(c, Fresh(St))

\* C2: invalidation completeness.  For a defined symbol S other than MODULES
\* and a Symbol.set_value on S, every symbol or choice whose value, visibility,
\* assignable set or selection differs between the state before and the state
\* after is S or an element of S._get_dependent().
C2_InvalidationCompleteness ==
    [][\A s \in DefinedSyms(Kconfigs[cfg]) \ {MODULES} :
        \A v \in SetValues(cfg, s) :
            (user_value'[s] = v /\ St' = Symbol_set_value(s, v, St))
            => \A item \in Items :
                  ItemValues(item, St) # ItemValues(item, St')
                  => \/ item = Sym(s)
                     \/ item \in _get_dependent(Kconfigs[cfg], s)]_vars

\* No cached value, visibility or assignable set of a defined symbol and no
\* cached visibility, assignable set or selection of a choice is left in st
AllDiscarded(st) ==
    /\ \A s \in DefinedSyms(st.kconfig) :
          /\ st.cached_val[s] = None
          /\ st.cached_vis[s] = None
          /\ st.cached_assignable[s] = None
    /\ \A c \in ChoiceIds(st.kconfig) :
          /\ st.ch_cached_selection[c] = _NO_CACHED_SELECTION
          /\ st.ch_cached_vis[c] = None
          /\ st.ch_cached_assignable[c] = None

\* C3: whenever Symbol.set_value or Symbol.unset_value on MODULES changes its
\* user value, the call leaves every cache of every defined symbol and of
\* every choice discarded.
C3_ModulesInvalidatesAll ==
    [][(/\ MODULES \in DefinedSyms(Kconfigs[cfg])
        /\ user_value'[MODULES] # user_value[MODULES]
        /\ \/ St' = Symbol_unset_value(MODULES, St)
           \/ \E v \in SetValues(cfg, MODULES) :
                 St' = Symbol_set_value(MODULES, v, St))
       => AllDiscarded(St')]_vars

\* The member symbols of choice c
Members(c) ==
    {Kconfigs[cfg].choices[c].syms[i] :
        i \in DOMAIN Kconfigs[cfg].choices[c].syms}

\* The defined symbols of type bool or tristate
TriSyms ==
    {s \in DefinedSyms(Kconfigs[cfg]) :
        Kconfigs[cfg].syms[s]._type \in {BOOL, TRISTATE}}

\* Those outside the choices
NonChoiceTriSyms == {s \in TriSyms : Kconfigs[cfg].syms[s].choice = NoSym}

\* Symbol.value, Symbol.visibility and the three expressions of a symbol,
\* computed from the current user values
Value(s) == Symbol_value(s, Fresh(St)).v

Visibility(s) == Symbol_visibility(s, Fresh(St)).v

RevDep(s) == eval_expr(Kconfigs[cfg].syms[s].rev_dep, Fresh(St)).v

WeakRevDep(s) == eval_expr(Kconfigs[cfg].syms[s].weak_rev_dep, Fresh(St)).v

DirectDeps(s) == eval_expr(Kconfigs[cfg].syms[s].direct_deps, Fresh(St)).v

\* C4: choice exclusivity.  For every choice whose mode is "y", exactly one
\* member has value "y" and every other member has value "n"; for every choice
\* whose mode is "m", no member has value "y".
C4_ChoiceExclusivity ==
    \A c \in ChoiceIds(Kconfigs[cfg]) :
        LET mode == Choice_value(c, Fresh(St)).v
        IN  /\ mode = Y =>
                \E x \in Members(c) :
                    /\ Value(x) = Y
                    /\ \A o \in Members(c) \ {x} : Value(o) = N
            /\ mode = M => \A x \in Members(c) : Value(x) # Y

\* C5 as stated: select lower bound.  For every bool or tristate symbol S,
\* choice member or not, value(S) >= eval(rev_dep(S)).
C5_SelectLowerBound ==
    \A s \in TriSyms : ~tri_less(Value(s), RevDep(s))

\* C5: select lower bound.  For every bool or tristate symbol S that is not a
\* choice member, value(S) >= eval(rev_dep(S)) in the order n < m < y.
C5_SelectLowerBoundNonChoice ==
    \A s \in NonChoiceTriSyms : ~tri_less(Value(s), RevDep(s))

\* A visible symbol that the user has set to "n" and a select forces up
C5_Witness ==
    \E s \in NonChoiceTriSyms :
        /\ user_value[s] = N
        /\ Visibility(s) # N
        /\ RevDep(s) # N
        /\ Value(s) = RevDep(s)

RoundTrip ==
    /\ last_op[1] = "Config.write_config"
    /\ last_op'[1] = "Config.load_config"
    /\ last_op'[3] = <<>>

\* The defined symbols of type bool, tristate, int, hex or string whose
\* visibility is not "n" when the file is written
VisibleTyped ==
    {s \in DefinedSyms(Kconfigs[cfg]) :
        /\ Kconfigs[cfg].syms[s]._type \in {BOOL, TRISTATE, INT, HEX, STRING_TYPE}
        /\ Symbol_visibility(s, St).v # N}

\* C7 as stated: round trip.  After write_config(f) followed by
\* load_config(f) with no warning, every defined bool, tristate, int, hex or
\* string symbol whose visibility is not "n" has the user_value it had before
\* the write.
C7_RoundTripUserValue ==
    [][RoundTrip => \A s \in VisibleTyped : user_value'[s] = user_value[s]]_vars

\* C7: round trip.  After write_config(f) followed by load_config(f) with no
\* warning, every such symbol that is no choice member and is not bound to an
\* environment variable, whose name is made of word characters and whose
\* value has no line break and no trailing white space, has as user_value
\* the value it had at the write.
C7_RoundTripValue ==
    [][RoundTrip =>
        \A s \in VisibleTyped :
            LET sym == Kconfigs[cfg].syms[s]
                val == Symbol_value(s, St).v
            IN  (/\ sym.choice = NoSym
                 /\ ~sym.env_var
                 /\ WordLen(sym.name) = Len(sym.name)
                 /\ rstrip(val) = val
                 /\ \A i \in DOMAIN val : val[i] \notin {"\n", "\r"})
                => user_value'[s] = val]_vars

\* A file has been written and loaded back without a warning; a string whose
\* value has a quote in it, a bool and a number have come back
C7_Witness ==
    /\ last_op[1] = "Config.load_config"
    /\ last_op[3] = <<>>
    /\ \E s \in DefinedSyms(Kconfigs[cfg]) :
          /\ Kconfigs[cfg].syms[s]._type = STRING_TYPE
          /\ \E i \in DOMAIN user_value[s] : user_value[s][i] = "\""
    /\ \E s \in DefinedSyms(Kconfigs[cfg]) :
          /\ Kconfigs[cfg].syms[s]._type = BOOL
          /\ user_value[s] = Y
    /\ \E s \in DefinedSyms(Kconfigs[cfg]) :
          /\ Kconfigs[cfg].syms[s]._type \in {INT, HEX}
          /\ user_value[s] # None

\* C8: assignable values are achievable.  For every bool or tristate symbol S
\* that is not a choice member and every v in S.assignable, after
\* S.set_value(v) the value of S is v.
C8_AssignableAchievable ==
    \A s \in NonChoiceTriSyms :
        LET assignable == Symbol_assignable(s, Fresh(St)).v
        IN  \A i \in DOMAIN assignable :
                Symbol_value(s, Fresh(Symbol_set_value(s, <<assignable[i]>>, St))).v
                    = <<assignable[i]>>

\* C9: selecting a choice member.  For a choice whose visibility is "y" and a
\* member X whose visibility is "y", after X.set_value("y"), whatever was
\* assigned before, the mode of the choice is "y", Choice.selection and
\* Choice.user_selection are X, X has value "y" and every other member has
\* value "n".
C9_SelectingMember ==
    [][\A c \in ChoiceIds(Kconfigs[cfg]) : \A x \in Members(c) :
        (/\ user_value'[x] = Y
         /\ Choice_visibility(c, St).v = Y
         /\ Symbol_visibility(x, St).v = Y
         /\ St' = Symbol_set_value(x, Y, St))
        => /\ Choice_value(c, St').v = Y
           /\ Choice_selection(c, St').v = x
           /\ ch_user_selection'[c] = x
           /\ Symbol_value(x, St').v = Y
           /\ \A o \in Members(c) \ {x} : Symbol_value(o, St').v = N]_vars

\* Member x of a visible choice has been selected after another member, which
\* keeps its user value "y": x is the user selection and nothing of the
\* choice has been read since
C9_Witness ==
    \E c \in ChoiceIds(Kconfigs[cfg]) : \E x \in Members(c) :
        /\ ch_user_selection[c] = x
        /\ user_value[x] = Y
        /\ \E o \in Members(c) \ {x} : user_value[o] = Y
        /\ cached_val[x] = None
        /\ ch_cached_selection[c] = _NO_CACHED_SELECTION
        /\ Choice_visibility(c, St).v = Y
        /\ Symbol_visibility(x, St).v = Y
        /\ Choice_selection(c, St).v = x
        /\ Symbol_value(x, St).v = Y

\* Symbol.set_value, in file order, for each recognised assignment line of f
RECURSIVE set_value_each(_, _, _)
set_value_each(f, i, st) ==
    IF i > Len(f) THEN st
    ELSE LET p == load_config_parse(st.kconfig, f[i])
         IN  set_value_each(f, i + 1,
                 IF p.assign THEN Symbol_set_value(p.name, p.val, st) ELSE st)

\* The symbols that the recognised assignment lines of f mention
Mentioned(f) ==
    {load_config_parse(Kconfigs[cfg], f[i]).name : i \in DOMAIN f} \ {NoSym}

\* The observable state: the user values, the modes and user selections of
\* the choices, and what the reads made next return
Observable(st) ==
    [user_value |-> st.user_value,
     ch_user_value |-> st.ch_user_value,
     ch_user_selection |-> st.ch_user_selection,
     syms |-> [s \in DefinedSyms(st.kconfig) |-> SymbolReads(s, st)],
     choices |-> [c \in ChoiceIds(st.kconfig) |->
                     <<Choice_value(c, st).v>> \o ChoiceReads(c, st)]]

\* C10: load_config is a sequence of set_value calls.  load_config(f) with
\* replace=False leaves the observable state that Symbol.set_value, called in
\* file order for each recognised assignment line, leaves; with replace=True
\* it leaves the state that unset_values() followed by those calls leaves, so
\* that no symbol the file does not mention keeps a user value.
C10_LoadIsSetValues ==
    [][\A f \in Files(cfg) : \A replace_ \in BOOLEAN :
        St' = load_config(f, replace_, St).st
        => /\ Observable(St') =
                Observable(set_value_each(f, 1,
                    IF replace_ THEN unset_values(St) ELSE St))
           /\ replace_ =>
                \A s \in SymNames(Kconfigs[cfg]) \ Mentioned(f) :
                    user_value'[s] = None]_vars

\* st as Config.__init__ leaves the object: no user value, no user mode, no
\* user selection, nothing cached
Constructed(st) ==
    [Fresh(st) EXCEPT
        !.user_value = [s \in DOMAIN @ |-> None],
        !.write_to_conf = [s \in DOMAIN @ |-> FALSE],
        !.ch_user_value = [c \in DOMAIN @ |-> None],
        !.ch_user_selection = [c \in DOMAIN @ |-> NoSym]]

\* What the reads made in state st return: the properties of every defined
\* symbol and of every choice, and the lines write_config writes
Reads(st) ==
    [syms |-> [s \in DefinedSyms(st.kconfig) |-> SymbolReads(s, st)],
     choices |-> [c \in ChoiceIds(st.kconfig) |->
                     <<Choice_value(c, st).v>> \o ChoiceReads(c, st)],
     config |-> write_config(st).v]

\* C11: after Config.unset_values(), from any state, every symbol of
\* Config.syms has no user value, every choice has no user mode and no user
\* selection, and every read returns what it returns on a freshly constructed
\* configuration.
C11_UnsetValues ==
    [][St' = unset_values(St)
       => /\ \A s \in SymNames(Kconfigs[cfg]) : user_value'[s] = None
          /\ \A c \in ChoiceIds(Kconfigs[cfg]) :
                ch_user_value'[c] = None /\ ch_user_selection'[c] = NoSym
          /\ Reads(St') = Reads(Constructed(St'))]_vars

\* The values, modes and selections computed from the user values of st
Values(st) ==
    [syms |-> [s \in DefinedSyms(st.kconfig) |-> Symbol_value(s, Fresh(st)).v],
     choices |-> [c \in ChoiceIds(st.kconfig) |->
                     <<Choice_value(c, Fresh(st)).v,
                       Choice_selection(c, Fresh(st)).v>>]]

\* Nothing of choice c has been assigned: no mode, no selection, no member
Untouched(c) ==
    /\ ch_user_value[c] = None
    /\ ch_user_selection[c] = NoSym
    /\ \A x \in Members(c) : user_value[x] = None

\* C12: unset_value is an undo.  In a state where symbol S has no user value
\* (and, S being a choice member, nothing of its choice has been assigned),
\* S.set_value(v) followed by S.unset_value() leaves every value, mode and
\* selection as it is in that state; and in a state where nothing of choice C
\* has been assigned, an assignment of C's mode or of a member, followed by
\* C.unset_value(), leaves every value, mode and selection as it is.
C12_UnsetValueIsUndo ==
    /\ \A s \in DefinedSyms(Kconfigs[cfg]) : \A v \in SetValues(cfg, s) :
          (/\ user_value[s] = None
           /\ Kconfigs[cfg].syms[s].choice # NoSym
                => Untouched(Kconfigs[cfg].syms[s].choice))
          => Values(Symbol_unset_value(s, Symbol_set_value(s, v, St)))
                = Values(St)
    /\ \A c \in ChoiceIds(Kconfigs[cfg]) :
          Untouched(c)
          => /\ \A v \in ChoiceSetValues(cfg) :
                   Values(Choice_unset_value(c, Choice_set_value(c, v, St)))
                      = Values(St)
             /\ \A x \in Members(c) : \A v \in SetValues(cfg, x) :
                   Values(Choice_unset_value(c, Symbol_set_value(x, v, St)))
                      = Values(St)

\* The value is invalid for a symbol of the declared type: anything but n/y
\* for bool, anything but n/m/y for tristate, no base-10 number for int, no
\* base-16 number for hex, anything for unknown
InvalidForType(_type, value) ==
    CASE _type = BOOL -> value \notin {N, Y}
      [] _type = TRISTATE -> value \notin {N, M, Y}
      [] _type = INT -> ~_is_base_n(value, 10)
      [] _type = HEX -> ~_is_base_n(value, 16)
      [] _type = UNKNOWN -> TRUE
      [] OTHER -> FALSE

\* C13: Symbol.set_value with a value that is invalid for the declared type of
\* the symbol is ignored: the user value of the symbol, and the user mode and
\* the user selection of its choice, are after the call what they were before.
C13_InvalidValueIgnored ==
    [][\A name \in SymNames(Kconfigs[cfg]) : \A value \in SetValues(cfg, name) :
        (/\ InvalidForType(Kconfigs[cfg].syms[name]._type, value)
         /\ St' = Symbol_set_value(name, value, St))
        => /\ user_value'[name] = user_value[name]
           /\ Kconfigs[cfg].syms[name].choice # NoSym
                => LET c == Kconfigs[cfg].syms[name].choice
                   IN  /\ ch_user_value'[c] = ch_user_value[c]
                       /\ ch_user_selection'[c] = ch_user_selection[c]]_vars

\* The last call was a set_value of an invalid value, on a symbol that had a
\* user value, or on a member of a choice that had a mode and a selection
C13_Witness ==
    /\ last_op = <<"Symbol.set_value", <<"invalid value">> >>
    /\ \E name \in SymNames(Kconfigs[cfg]) :
          /\ \E value \in SetValues(cfg, name) :
                InvalidForType(Kconfigs[cfg].syms[name]._type, value)
          /\ user_value[name] # None
          /\ Kconfigs[cfg].syms[name].choice # NoSym
          /\ ch_user_value[Kconfigs[cfg].syms[name].choice] # None
          /\ ch_user_selection[Kconfigs[cfg].syms[name].choice] # NoSym

\* The defined symbols of type int or hex
NumSyms ==
    {s \in DefinedSyms(Kconfigs[cfg]) : Kconfigs[cfg].syms[s]._type \in {INT, HEX}}

\* The range in effect for symbol s in state st: that of the first range
\* whose condition is not "n"
ActiveRange(s, st) ==
    Symbol_value_range(st.kconfig.syms[s].ranges, 1,
                       _TYPE_TO_BASE[st.kconfig.syms[s]._type], st)

\* The value of s in state st if s had no user value
ValueWithoutUser(s, st) ==
    Symbol_value(s, [Fresh(st) EXCEPT !.user_value[s] = None]).v

\* The number n in the standard form of the type
NumToStr(_type, n) == IF _type = HEX THEN IntToHex(n) ELSE IntToStr(n)

\* The values the defaults and the range rng can give s in st: the string of
\* a default that is a number and whose condition is not "n", clamped to the
\* range; the low end of the range when that is > 0; the empty string
DefaultOrLow(s, rng, st) ==
    LET sym == st.kconfig.syms[s]
        base == _TYPE_TO_BASE[sym._type]
        str(i) == _str_val(sym.defaults[i][1], Fresh(st)).v
    IN  {IF ParseInt(str(i), base) < rng.low THEN NumToStr(sym._type, rng.low)
         ELSE IF ParseInt(str(i), base) > rng.high THEN NumToStr(sym._type, rng.high)
         ELSE str(i) :
            i \in {j \in DOMAIN sym.defaults :
                    /\ eval_expr(sym.defaults[j][2], Fresh(st)).v # N
                    /\ _is_base_n(str(j), base)}}
        \cup (IF rng.low > 0 THEN {NumToStr(sym._type, rng.low)} ELSE {})
        \cup {<<>>}

\* C14: for a visible int or hex symbol with an active range [low, high],
\* after set_value(v) with v a number in the base of the symbol: user_value is
\* v; if low <= v <= high the value is v as written; if v is outside the
\* range the value is the one the symbol has with no user value: a default
\* of its clamped to the range, else the low end of the range when that is
\* > 0, else the empty string (which of them is the matter of C24).
C14_RangeClamp ==
    [][\A s \in NumSyms : \A v \in SetValues(cfg, s) :
        LET base == _TYPE_TO_BASE[Kconfigs[cfg].syms[s]._type]
            rng == ActiveRange(s, Fresh(St'))
        IN  (/\ _is_base_n(v, base)
             /\ St' = Symbol_set_value(s, v, St)
             /\ Symbol_visibility(s, St').v # N
             /\ rng.has_active_range)
            => /\ user_value'[s] = v
               /\ IF rng.low <= ParseInt(v, base) /\ ParseInt(v, base) <= rng.high
                  THEN Symbol_value(s, St').v = v
                  ELSE /\ Symbol_value(s, St').v = ValueWithoutUser(s, St')
                       /\ Symbol_value(s, St').v \in DefaultOrLow(s, rng, St')]_vars

\* Int and hex symbols, visible and with a range in effect, that have a user
\* value outside the range and the clamped default, or the low end of the
\* range, as value; and one with a user value within the range as value
C14_Witness ==
    /\ \E s \in NumSyms :
          /\ Kconfigs[cfg].syms[s]._type = INT
          /\ user_value[s] = <<"2", "5">>
          /\ ActiveRange(s, Fresh(St)).has_active_range
          /\ Symbol_value(s, St).v = <<"1", "0">>
    /\ \E s \in NumSyms :
          /\ Kconfigs[cfg].syms[s]._type = HEX
          /\ user_value[s] = <<"5">>
          /\ ActiveRange(s, Fresh(St)).has_active_range
          /\ Symbol_value(s, St).v = <<"0", "x", "1", "0">>

\* The table of the specification for assignable: the entry for a visibility,
\* the values of rev_dep and weak_rev_dep, and an effective type
AssignableTable(vis, rev, weak, type) ==
    LET boolish == type = BOOL \/ weak = Y
    IN  CASE vis = N -> <<>>
          [] vis = Y /\ rev = N ->
                IF boolish THEN <<"n", "y">> ELSE <<"n", "m", "y">>
          [] vis = Y /\ rev = Y -> <<"y">>
          [] vis = Y /\ rev = M -> IF boolish THEN <<"y">> ELSE <<"m", "y">>
          [] vis = M /\ rev = N -> IF boolish THEN <<"y">> ELSE <<"m">>
          [] vis = M /\ rev = Y -> <<"y">>
          [] vis = M /\ rev = M -> <<"m">>

\* The entry of the table for symbol s, from what its visibility, its type and
\* the two expressions read in state st
AssignableEntry(s, st) ==
    IF st.kconfig.syms[s]._type \in {BOOL, TRISTATE}
    THEN AssignableTable(Symbol_visibility(s, st).v,
                         eval_expr(st.kconfig.syms[s].rev_dep, st).v,
                         eval_expr(st.kconfig.syms[s].weak_rev_dep, st).v,
                         Symbol_type(s, st).v)
    ELSE <<>>

\* C15: in every state, for every defined symbol, Symbol.assignable is the
\* entry of the table of the specification for the symbol's visibility, the
\* values of its rev_dep and weak_rev_dep and its effective type, and the empty
\* string for a symbol that is not bool or tristate.
C15_AssignableTable ==
    \A s \in DefinedSyms(Kconfigs[cfg]) :
        Symbol_assignable(s, St).v = AssignableEntry(s, St)

\* The smaller and the larger of two tristate values in the order n < m < y
TriMin(a, b) == IF _TRI_TO_INT[a] <= _TRI_TO_INT[b] THEN a ELSE b

TriMax(a, b) == IF _TRI_TO_INT[a] >= _TRI_TO_INT[b] THEN a ELSE b

\* What the defaults of s give: min(default value, condition) of the first
\* default in declaration order, from the i-th on, whose condition is "m" or
\* "y"; "n" when there is none
RECURSIVE FirstActiveDefault(_, _)
FirstActiveDefault(s, i) ==
    LET defaults == Kconfigs[cfg].syms[s].defaults
    IN  IF i > Len(defaults) THEN N
        ELSE IF eval_expr(defaults[i][2], Fresh(St)).v # N
        THEN TriMin(eval_expr(defaults[i][1], Fresh(St)).v,
                    eval_expr(defaults[i][2], Fresh(St)).v)
        ELSE FirstActiveDefault(s, i + 1)

\* The value that follows from the defaults of s, the imply statements (when
\* the direct dependencies are met) and the select statements, with "m"
\* promoted to "y" for an effective type bool or an imply at "y"
ValueFromDefaults(s) ==
    LET d == FirstActiveDefault(s, 1)
        w == IF DirectDeps(s) # N THEN TriMax(d, WeakRevDep(s)) ELSE d
        v == TriMax(w, RevDep(s))
    IN  IF v = M /\ (Symbol_type(s, Fresh(St)).v = BOOL \/ WeakRevDep(s) = Y)
        THEN Y ELSE v

\* C16: dependency monotonicity.  For a bool or tristate symbol that is not a
\* choice member and has no usable user value (it is invisible or has no user
\* value), the defaults contribute min(default value, condition) of the first
\* default in declaration order whose condition is "m" or "y": a default whose
\* condition is "n", and any default after the first active one, contributes
\* nothing to the value.
C16_FirstActiveDefault ==
    \A s \in NonChoiceTriSyms :
        (Visibility(s) = N \/ user_value[s] = None)
        => Value(s) = ValueFromDefaults(s)

\* An invisible symbol with a user value whose first default has condition
\* "n" and whose second default, of condition "m", gives it the value "m"
C16_Witness ==
    \E s \in NonChoiceTriSyms :
        LET defaults == Kconfigs[cfg].syms[s].defaults
        IN  /\ Len(defaults) >= 3
            /\ user_value[s] = Y
            /\ Visibility(s) = N
            /\ eval_expr(defaults[1][2], Fresh(St)).v = N
            /\ eval_expr(defaults[2][2], Fresh(St)).v = M
            /\ Value(s) = M

\* The text does not both start and end with a double quote
NotQuoted(val) ==
    ~(Len(val) >= 1 /\ val[1] = "\"" /\ val[Len(val)] = "\"")

\* C17: Config.load_config skips every assignment to a string symbol whose
\* right-hand side does not both start and end with a double quote: for a
\* file of one such line, the load prints the warning about a malformed
\* string literal and leaves the user value of the symbol as it was before
\* the line was read (None after the clearing of replace=True).
C17_MalformedStringSkipped ==
    [][\A f \in Files(cfg) : \A replace_ \in BOOLEAN :
        LET m == set_re_match(rstrip(f[1]))
            s == KeyOf(Kconfigs[cfg], m.name)
            r == load_config(f, replace_, St)
        IN  (/\ Len(f) = 1
             /\ m.matched
             /\ s # NoSym
             /\ Kconfigs[cfg].syms[s]._type = STRING_TYPE
             /\ NotQuoted(m.val)
             /\ St' = r.st)
            => /\ r.warnings = <<"malformed string literal">>
               /\ user_value'[s] = IF replace_ THEN None ELSE user_value[s]]_vars

\* The text with every backslash and every double quote preceded by a
\* backslash
RECURSIVE Escaped(_)
Escaped(val) ==
    IF Len(val) = 0 THEN <<>>
    ELSE (IF val[1] \in {"\\", "\""} THEN <<"\\", val[1]>> ELSE <<val[1]>>)
         \o Escaped(Tail(val))

\* The defined string symbols that are visible in state st
VisibleStrings(st) ==
    {s \in DefinedSyms(st.kconfig) :
        /\ st.kconfig.syms[s]._type = STRING_TYPE
        /\ ~st.kconfig.syms[s].env_var
        /\ Symbol_visibility(s, st).v # N}

\* C18: string escaping round-trips.  For a visible string symbol of value s,
\* write_config writes the line PREFIX NAME="escaped", escaped being s with
\* every backslash and double quote preceded by a backslash, and load_config
\* of the file written makes s the user value, and the value, of the symbol.
C18_EscapeRoundTrip ==
    [][(/\ last_op[1] = "Config.write_config"
        /\ last_op'[1] = "Config.load_config")
       => \A s \in VisibleStrings(St) :
            LET val == Symbol_value(s, St).v
            IN  /\ \E i \in DOMAIN last_op[2] :
                      last_op[2][i] = config_prefix \o Kconfigs[cfg].syms[s].name
                                      \o <<"=", "\"">> \o Escaped(val) \o <<"\"">>
                /\ user_value'[s] = val
                /\ Symbol_value(s, St').v = val]_vars

\* A file has been written and loaded back, and a string symbol has a user
\* value in which a backslash follows a double quote
C18_Witness ==
    /\ last_op[1] = "Config.load_config"
    /\ \E s \in VisibleStrings(St) :
          /\ user_value[s] # None
          /\ \E i \in DOMAIN user_value[s] :
                /\ i > 1
                /\ user_value[s][i] = "\\"
                /\ user_value[s][i - 1] = "\""
          /\ Symbol_value(s, St).v = user_value[s]

\* Choice.selection of c is the remembered user selection whenever that
\* symbol is set, the mode reads "y" and the symbol's visibility reads "y"
SnapsBack(c, st) ==
    LET X == st.ch_user_selection[c]
        mode == Choice_value(c, st)
        vis == Symbol_visibility(X, mode.st)
    IN  (X # NoSym /\ mode.v = Y /\ vis.v = Y)
        => Choice_selection(c, vis.st).v = X

\* C19: choice snap-back.  A change of mode, by Choice.set_value or by a
\* member being given a value other than "y", never changes the remembered
\* user_selection of the choice; and after every call, a choice whose mode
\* is "y" while the remembered user selection has visibility "y" has that
\* symbol for Choice.selection, so that the choice is back on the member the
\* user selected once the mode returns to "y".
C19_SnapBack ==
    [][\A c \in ChoiceIds(Kconfigs[cfg]) :
        /\ (\E value \in ChoiceSetValues(cfg) : St' = Choice_set_value(c, value, St))
           => ch_user_selection'[c] = ch_user_selection[c]
        /\ (\E s \in Members(c) : \E value \in SetValues(cfg, s) \ {Y} :
                St' = Symbol_set_value(s, value, St))
           => ch_user_selection'[c] = ch_user_selection[c]
        /\ SnapsBack(c, St')]_vars

\* C20: in every reachable state and for every choice, the mode Choice.value
\* is at most Choice.visibility in the order n < m < y, and the mode is "m"
\* only if the type the choice reads as (Choice.type) is tristate.
C20_ModeBounds ==
    \A c \in ChoiceIds(Kconfigs[cfg]) :
        LET mode == Choice_value(c, St)
            vis == Choice_visibility(c, mode.st)
            type == Choice_type(c, vis.st)
        IN  /\ ~tri_greater(mode.v, vis.v)
            /\ mode.v = M => type.v = TRISTATE

\* The value is invalid for a choice of the declared type _type
InvalidForChoice(_type, value) ==
    ~(\/ _type = BOOL /\ value \in {N, Y}
      \/ _type = TRISTATE /\ value \in {N, M, Y})

\* C25: a Choice.set_value with a value that is invalid for the declared
\* type of the choice is ignored: Choice.user_value is after the call what it
\* was before it.
C25_InvalidModeIgnored ==
    [][\A c \in ChoiceIds(Kconfigs[cfg]) : \A value \in ChoiceSetValues(cfg) :
        (/\ InvalidForChoice(Kconfigs[cfg].choices[c]._type, value)
         /\ St' = Choice_set_value(c, value, St))
        => ch_user_value'[c] = ch_user_value[c]]_vars

\* Choice.selection of c, read in st after the mode, is None or a member of
\* c whose visibility is not "n", and None when the mode is not "y"
SelectionIsVisibleMember(c, st) ==
    LET mode == Choice_value(c, st)
        sel == Choice_selection(c, mode.st)
    IN  /\ sel.v # NoSym
           => /\ \E i \in DOMAIN ChoiceOf(st, c).syms :
                    ChoiceOf(st, c).syms[i] = sel.v
              /\ Symbol_visibility(sel.v, sel.st).v # N
        /\ mode.v # Y => sel.v = NoSym

\* C27: in every reachable state and for every choice, Choice.selection is
\* None or a member of the choice with visibility other than "n", and it is
\* None whenever the mode of the choice is not "y".
C27_SelectionMember ==
    \A c \in ChoiceIds(Kconfigs[cfg]) : SelectionIsVisibleMember(c, St)

\* Symbol s has no usable user value in st: it is invisible, has no user
\* value, or one that is no number of its base or lies outside the range rng
NoUsableUserValue(s, rng, st) ==
    LET base == _TYPE_TO_BASE[st.kconfig.syms[s]._type]
        user == st.user_value[s]
    IN  ~(/\ Symbol_visibility(s, Fresh(st)).v # N
          /\ user # None
          /\ _is_base_n(user, base)
          /\ (rng.has_active_range
                => rng.low <= ParseInt(user, base) /\ ParseInt(user, base) <= rng.high))

\* What the claim gives s from its defaults, from the i-th on: the string of
\* the first default whose condition is not "n", in the standard form of the
\* nearest bound when a range is active and the string is a number outside
\* of it; with no such default, the low end of an active range that is > 0,
\* else the empty string
RECURSIVE FirstDefaultValue(_, _, _, _)
FirstDefaultValue(s, i, rng, st) ==
    LET sym == st.kconfig.syms[s]
        base == _TYPE_TO_BASE[sym._type]
    IN  IF i > Len(sym.defaults)
        THEN IF rng.has_active_range /\ rng.low > 0
             THEN NumToStr(sym._type, rng.low)
             ELSE <<>>
        ELSE IF eval_expr(sym.defaults[i][2], Fresh(st)).v = N
        THEN FirstDefaultValue(s, i + 1, rng, st)
        ELSE LET d == _str_val(sym.defaults[i][1], Fresh(st)).v
             IN  IF ~(rng.has_active_range /\ _is_base_n(d, base)) THEN d
                 ELSE IF ParseInt(d, base) < rng.low
                 THEN NumToStr(sym._type, rng.low)
                 ELSE IF ParseInt(d, base) > rng.high
                 THEN NumToStr(sym._type, rng.high)
                 ELSE d

\* C24: an int or hex symbol without a usable user value has for value the
\* string of its first default, in declaration order, whose condition is
\* not "n", clamped to the nearest bound and in standard form when a range
\* is active and the number lies outside of it; no later default
\* contributes, and the low end of the range is the value only when no
\* default has a condition other than "n", a range is active and low > 0.
C24_FirstNumDefault ==
    \A s \in NumSyms :
        LET rng == ActiveRange(s, Fresh(St))
        IN  NoUsableUserValue(s, rng, St)
            => Symbol_value(s, St).v = FirstDefaultValue(s, 1, rng, St)

\* What a client reads in state st: the value of every defined symbol, the
\* mode and the selection of every choice
ReadValues(st) ==
    [syms |-> [s \in DefinedSyms(st.kconfig) |-> Symbol_value(s, st).v],
     choices |-> [c \in ChoiceIds(st.kconfig) |->
                     <<Choice_value(c, st).v, Choice_selection(c, st).v>>]]

\* write_config in st, then load_config with replace=True of the file
\* written, brings back every value, mode and selection read in st, and a
\* second write_config writes the same lines
ValuesRoundTrip(st) ==
    LET written == write_config(st)
        loaded == load_config(written.v, TRUE, written.st)
    IN  /\ ReadValues(loaded.st) = ReadValues(st)
        /\ write_config(loaded.st).v = written.v

\* C26: value round trip.  In every reachable state, Config.write_config(f)
\* followed by Config.load_config(f, replace=True) leaves every defined
\* symbol with the value, and every choice with the mode and the selection,
\* it had before the write, so that a second write_config writes the same
\* file.
C26_ValueRoundTrip == ValuesRoundTrip(St)

\* The symbols that the expressions of the symbols of set refer to, directly
\* or through n further symbols
RECURSIVE RefersTo(_, _, _)
RefersTo(kconfig, set, n) ==
    LET direct == UNION {add_expr_deps(kconfig, s) : s \in set}
                  \cap DefinedSyms(kconfig)
    IN  IF n = 0 THEN direct
        ELSE direct \cup RefersTo(kconfig, direct, n - 1)

\* No symbol refers back to itself through the expressions of its
\* properties
NoSelfReference(kconfig) ==
    \A s \in DefinedSyms(kconfig) :
        s \notin RefersTo(kconfig, {s}, Len(kconfig.defined_syms))

\* C30: termination.  In a configuration where no symbol refers back to
\* itself through the expressions of its properties, Symbol._get_dependent
\* terminates: no call of it ends in RecursionError, and the collection a
\* call returns is duplicate-free; so also for choice members, one of which
\* may refer to a sibling.
C30_GetDependentTerminates ==
    NoSelfReference(Kconfigs[cfg])
    => /\ last_op[1] # "RecursionError"
       /\ last_op[1] = "Symbol._get_dependent"
          => \A i, j \in DOMAIN last_op[2] :
                i # j => last_op[2][i] # last_op[2][j]

\* The text s with every $NAME reference replaced, in one pass from left to
\* right, by the value in st of the symbol NAME, or by the empty string when
\* there is no such symbol; the text put in is not scanned
RECURSIVE ExpandedOnce(_, _)
ExpandedOnce(s, st) ==
    LET m == _sym_ref_re_search(s, 1)
    IN  IF m.name = <<>> THEN s
        ELSE SubSeq(s, 1, m.start)
             \o (IF KeyOf(st.kconfig, m.name) # NoSym
                 THEN Symbol_value(KeyOf(st.kconfig, m.name), st).v
                 ELSE <<>>)
             \o ExpandedOnce(From(s, m.end), st)

\* C22: the expansion of symbol references is not recursive.  The text
\* Config._expand_sym_refs returns for the text of the main menu is the text
\* with each $NAME replaced by the value of NAME in one pass: the text that
\* entered as the value of a symbol is not itself scanned for references.
C22_ExpansionOnePass ==
    mainmenu_text(St).v = ExpandedOnce(top_menu_prompt(cfg), St)

\* The spelling of a keyword or operator token
Spelling(t) ==
    CASE t = "_T_ALLNOCONFIG_Y" -> <<"a", "l", "l", "n", "o", "c", "o", "n", "f", "i", "g", "_", "y">>
      [] t = "_T_BOOL" -> <<"b", "o", "o", "l">>
      [] t = "_T_CHOICE" -> <<"c", "h", "o", "i", "c", "e">>
      [] t = "_T_COMMENT" -> <<"c", "o", "m", "m", "e", "n", "t">>
      [] t = "_T_CONFIG" -> <<"c", "o", "n", "f", "i", "g">>
      [] t = "_T_DEF_BOOL" -> <<"d", "e", "f", "_", "b", "o", "o", "l">>
      [] t = "_T_DEF_TRISTATE" -> <<"d", "e", "f", "_", "t", "r", "i", "s", "t", "a", "t", "e">>
      [] t = "_T_DEFAULT" -> <<"d", "e", "f", "a", "u", "l", "t">>
      [] t = "_T_DEFCONFIG_LIST" -> <<"d", "e", "f", "c", "o", "n", "f", "i", "g", "_", "l", "i", "s", "t">>
      [] t = "_T_DEPENDS" -> <<"d", "e", "p", "e", "n", "d", "s">>
      [] t = "_T_ENDCHOICE" -> <<"e", "n", "d", "c", "h", "o", "i", "c", "e">>
      [] t = "_T_ENDIF" -> <<"e", "n", "d", "i", "f">>
      [] t = "_T_ENDMENU" -> <<"e", "n", "d", "m", "e", "n", "u">>
      [] t = "_T_ENV" -> <<"e", "n", "v">>
      [] t = "_T_HELP" -> <<"h", "e", "l", "p">>
      [] t = "_T_HEX" -> <<"h", "e", "x">>
      [] t = "_T_IF" -> <<"i", "f">>
      [] t = "_T_IMPLY" -> <<"i", "m", "p", "l", "y">>
      [] t = "_T_INT" -> <<"i", "n", "t">>
      [] t = "_T_MAINMENU" -> <<"m", "a", "i", "n", "m", "e", "n", "u">>
      [] t = "_T_MENU" -> <<"m", "e", "n", "u">>
      [] t = "_T_MENUCONFIG" -> <<"m", "e", "n", "u", "c", "o", "n", "f", "i", "g">>
      [] t = "_T_MODULES" -> <<"m", "o", "d", "u", "l", "e", "s">>
      [] t = "_T_ON" -> <<"o", "n">>
      [] t = "_T_OPTION" -> <<"o", "p", "t", "i", "o", "n">>
      [] t = "_T_OPTIONAL" -> <<"o", "p", "t", "i", "o", "n", "a", "l">>
      [] t = "_T_PROMPT" -> <<"p", "r", "o", "m", "p", "t">>
      [] t = "_T_RANGE" -> <<"r", "a", "n", "g", "e">>
      [] t = "_T_SELECT" -> <<"s", "e", "l", "e", "c", "t">>
      [] t = "_T_SOURCE" -> <<"s", "o", "u", "r", "c", "e">>
      [] t = "_T_STRING" -> <<"s", "t", "r", "i", "n", "g">>
      [] t = "_T_TRISTATE" -> <<"t", "r", "i", "s", "t", "a", "t", "e">>
      [] t = "_T_VISIBLE" -> <<"v", "i", "s", "i", "b", "l", "e">>
      [] t = "_T_AND" -> <<"&", "&">>
      [] t = "_T_OR" -> <<"|", "|">>
      [] t = "_T_NOT" -> <<"!">>
      [] t = "_T_UNEQUAL" -> <<"!", "=">>
      [] t = "_T_EQUAL" -> <<"=">>
      [] t = "_T_OPEN_PAREN" -> <<"(">>
      [] t = "_T_CLOSE_PAREN" -> <<")">>
      [] t = "_T_LESS" -> <<"<">>
      [] t = "_T_LESS_EQUAL" -> <<"<", "=">>
      [] t = "_T_GREATER" -> <<">">>
      [] t = "_T_GREATER_EQUAL" -> <<">", "=">>

\* The texts of the tokens, a space between two of them: the text of a
\* keyword or operator token is its spelling, that of a Symbol its name, and
\* that of a str is what the token holds (quoted = FALSE) or the literal with
\* the quotes around it and its quotes and backslashes escaped (quoted = TRUE)
RECURSIVE TokenTexts(_, _)
TokenTexts(tokens, quoted) ==
    IF tokens = <<>> THEN <<>>
    ELSE LET t == Head(tokens)
             text == CASE t.kind = "keyword" -> Spelling(t.v[1])
                       [] t.kind = "str" /\ quoted -> <<"\"">> \o Escaped(t.v) \o <<"\"">>
                       [] OTHER -> t.v
         IN  text \o (IF Len(tokens) > 1 THEN <<" ">> ELSE <<>>)
                  \o TokenTexts(Tail(tokens), quoted)

\* The lexer has accepted the line: the last call returned a _Feed
Accepted == last_op[1] = "Config._tokenize" /\ last_op[2].status = "_Feed"

\* C23 as stated: lex idempotence.  For every line the lexer accepts, the
\* texts of the tokens it produced, put one after the other, are lexed to the
\* same token sequence.
C23_LexIdempotence ==
    Accepted => _tokenize(TokenTexts(last_op[2].tokens, FALSE)) = last_op[2]

\* C23, amended: lex idempotence with the string tokens written as literals.
\* For every line the lexer accepts, the texts of the tokens it produced, a
\* str token written between double quotes with its quotes and backslashes
\* escaped, are lexed to the same token sequence.
C23_LexIdempotenceQuoted ==
    Accepted => _tokenize(TokenTexts(last_op[2].tokens, TRUE)) = last_op[2]

\* An accepted line with a string literal after a keyword that does not make
\* the lexer read identifiers as strings
C23_Witness ==
    /\ Accepted
    /\ \E i \in 2..Len(last_op[2].tokens) :
          /\ last_op[2].tokens[i].kind = "str"
          /\ last_op[2].tokens[i].v = <<"A">>
          /\ last_op[2].tokens[i - 1] = Token("keyword", <<"_T_IF">>)

\* The last call made a Config from the file, and no syntax error was raised
Finalized == last_op[1] = "Config" /\ ~last_op[2].error

\* The nodes reached from the nodes todo through list and next pointers
RECURSIVE Reachable(_, _, _)
Reachable(nodes, todo, seen) ==
    IF todo = {} THEN seen
    ELSE LET n == CHOOSE x \in todo : TRUE
         IN  Reachable(nodes,
                       (todo \cup ({nodes[n].list, nodes[n].next} \ {NoNode}))
                           \ (seen \cup {n}),
                       seen \cup {n})

\* C21: after finalization no menu node that is reachable from
\* Config.top_menu through list and next pointers has an absent item: every
\* if node is removed, however the if blocks are nested and whatever their
\* sequence, the empty ones included.
C21_NoIfNodes ==
    Finalized =>
        \A n \in Reachable(last_op[2].nodes, {last_op[2].top_menu}, {}) :
            last_op[2].nodes[n].item.kind # "None"

\* The elements of a sequence
Range(seq) == {seq[i] : i \in DOMAIN seq}

\* The nodes of the symbol s in a tree
NodesOf(tree, s) ==
    {n \in Reachable(tree.nodes, {tree.top_menu}, {}) :
        tree.nodes[n].item = [kind |-> "Symbol", name |-> s]}

\* C28: choice membership is consistent after finalization.  For every
\* symbol S and choice C, S is in C.syms exactly if S.choice is C; no symbol
\* occurs twice in C.syms; and a symbol that is under C only through the
\* implicit submenu of a member is not in C.syms.
C28_ChoiceMembership ==
    Finalized =>
        \A c \in DOMAIN last_op[2].syms :
            /\ \A s \in DOMAIN last_op[2].choice :
                  /\ s \in Range(last_op[2].syms[c]) <=> last_op[2].choice[s] = c
                  /\ (/\ NodesOf(last_op[2], s) # {}
                      /\ \A n \in NodesOf(last_op[2], s) :
                            /\ last_op[2].nodes[n].parent # c
                            /\ last_op[2].nodes[last_op[2].nodes[n].parent].item.kind
                                   = "Symbol")
                     => s \notin Range(last_op[2].syms[c])
            /\ Cardinality(Range(last_op[2].syms[c])) = Len(last_op[2].syms[c])

\* The nodes from node on in the order of a walk that goes to the list of a
\* node before its next; at most fuel nodes of a chain are taken
RECURSIVE Preorder(_, _, _)
Preorder(nodes, node, fuel) ==
    IF node = NoNode \/ fuel = 0 THEN <<>>
    ELSE <<node>> \o Preorder(nodes, nodes[node].list, fuel - 1)
                  \o Preorder(nodes, nodes[node].next, fuel - 1)

\* The chain of the nodes from node on by next pointers
RECURSIVE Chain(_, _, _)
Chain(nodes, node, fuel) ==
    IF node = NoNode \/ fuel = 0 THEN <<>>
    ELSE <<node>> \o Chain(nodes, nodes[node].next, fuel - 1)

\* The nodes of a sequence whose item is not None
RECURSIVE WithItem(_, _)
WithItem(nodes, seq) ==
    IF seq = <<>> THEN <<>>
    ELSE (IF nodes[Head(seq)].item.kind # "None" THEN <<Head(seq)>> ELSE <<>>)
         \o WithItem(nodes, Tail(seq))

\* The nodes the parser makes for the config, menu and choice statements of
\* the file, in source order
RECURSIVE Created(_, _)
Created(lines, i) ==
    IF i > Len(lines) THEN <<>>
    ELSE (IF lines[i].kw \in {"config", "menu", "choice"} THEN <<i>> ELSE <<>>)
         \o Created(lines, i + 1)

\* The walk of Config._get_config_strings from node on, by list, next and
\* parent pointers: the nodes it visits, cut off after fuel nodes
RECURSIVE ParentWalk(_, _, _)
ParentWalk(nodes, node, fuel) ==
    LET Up[n \in DOMAIN nodes] ==
            IF nodes[n].parent = NoNode THEN NoNode
            ELSE IF nodes[nodes[n].parent].next # NoNode
            THEN nodes[nodes[n].parent].next
            ELSE Up[nodes[n].parent]
        to == IF nodes[node].list # NoNode THEN nodes[node].list
              ELSE IF nodes[node].next # NoNode THEN nodes[node].next
              ELSE Up[node]
    IN  IF fuel = 0 THEN <<node>>
        ELSE IF to = NoNode THEN <<node>>
        ELSE <<node>> \o ParentWalk(nodes, to, fuel - 1)

\* C29: the finalized menu tree is well formed.  Every menu node the parser
\* made for a config, menu or choice statement is reached from
\* Config.top_menu through list and next pointers exactly once, in source
\* order; the parent of every node is the node whose chain of children holds
\* it; and the walk of write_config by parent pointers visits every node
\* exactly once and ends.
C29_TreeWellFormed ==
    Finalized =>
        LET nodes == last_op[2].nodes
            top_menu == last_op[2].top_menu
            fuel == Len(kconfig_file) + 2
        IN  /\ WithItem(nodes, Preorder(nodes, nodes[top_menu].list, fuel))
                  = Created(kconfig_file, 1)
            /\ \A p \in Reachable(nodes, {top_menu}, {}) :
                  \A n \in Range(Chain(nodes, nodes[p].list, fuel)) :
                      nodes[n].parent = p
            /\ nodes[top_menu].list # NoNode =>
                  WithItem(nodes, ParentWalk(nodes, nodes[top_menu].list, fuel))
                      = Created(kconfig_file, 1)

\* A tree with an implicit menu whose file has an if block with a symbol in
\* it and a symbol without a prompt
C29_Witness ==
    /\ Finalized
    /\ \E n \in DOMAIN last_op[2].nodes :
          /\ last_op[2].nodes[n].parent # NoNode
          /\ last_op[2].nodes[last_op[2].nodes[n].parent].item.kind = "Symbol"
    /\ \E i \in 1..(Len(kconfig_file) - 1) :
          kconfig_file[i].kw = "if" /\ kconfig_file[i + 1].kw = "config"

====
